---------------------------- MODULE Spec2Model ----------------------------
(***************************************************************************)
(* Model of velox/substrait/SubstraitToVeloxPlan.cpp: the conversion of a  *)
(* Substrait plan into Velox plan nodes, with the filter-pushdown analyzer *)
(* of ReadRel (flattenConditions, separateFilters, toSubfieldFilters,      *)
(* mapToFilters), the join key extraction and the stream-input lookup.     *)
(*                                                                         *)
(* Conventions.                                                            *)
(*  - A Substrait expression is a record with field rex (the                *)
(*    rex_type_case): "selection" (col), "literal" (val, or vals for a     *)
(*    list literal), "scalarFunction" (ref = function_reference, args),    *)
(*    or another kind.                                                     *)
(*  - Column values and literals of every column type are drawn from one   *)
(*    ordered domain of small naturals; the column type decides the kind   *)
(*    of the filter that is built, not the order of the values.            *)
(*  - An operation that can throw returns a record with a field ok.        *)
(*  - std::optional<T> is a sequence of length 0 or 1.                     *)
(***************************************************************************)
EXTENDS Integers, Sequences, FiniteSets, TLC

VARIABLES
    planNodeId_,     \* the converter's plan node id counter
    splitInfoMap_,   \* plan node id -> SplitInfo
    functionMap_,    \* function anchor -> function name spec
    inputNodesMap_,  \* stream index -> pre-registered input node
    validationMode_, \* the converter's validation flag
    call,            \* the call in progress or last made: its name and input
    ret              \* what the last call returned, or that it threw

vars == <<planNodeId_, splitInfoMap_, functionMap_, inputNodesMap_,
          validationMode_, call, ret>>

----------------------------------------------------------------------------
(* Bounds of the model. *)

\* literals of the filters are 1..MaxLit; column values are 0..MaxLit+1.
MaxLit == 2

----------------------------------------------------------------------------
(* std::optional *)

None == <<>>
Some(v) == <<v>>

(* Sequence helpers. *)

Range(s) == {s[i] : i \in DOMAIN s}

\* the element of a one-element set: Only({e(x) : x \in {v}}) is e of the
\* value v, computed once
Only(S) == CHOOSE x \in S : TRUE

RECURSIVE SeqOfSet(_)
SeqOfSet(S) ==
    IF S = {} THEN <<>>
    ELSE LET x == CHOOSE y \in S : TRUE IN <<x>> \o SeqOfSet(S \ {x})

----------------------------------------------------------------------------
(* Substrait expressions. *)

Sel(c) == [rex |-> "selection", col |-> c]
Lit(v) == [rex |-> "literal", isList |-> FALSE, val |-> v, vals |-> <<>>]
ListLit(vs) == [rex |-> "literal", isList |-> TRUE, val |-> 0, vals |-> vs]
ScalarFunction(ref, args) == [rex |-> "scalarFunction", ref |-> ref, args |-> args]
\* an expression of a kind the converter has no case for (a cast, an if-then)
OtherExpr == [rex |-> "cast"]

has_selection(e) == e.rex = "selection"
has_literal(e) == e.rex = "literal"
has_scalar_function(e) == e.rex = "scalarFunction"

\* Substrait function names (file-level constants of the converter).
sIsNotNull == "is_not_null"
sGte == "gte"
sGt == "gt"
sLte == "lte"
sLt == "lt"
sEqual == "equal"
sIn == "in"
sOr == "or"
sNot == "not"
\* Substrait types.
sI32 == "i32"
sI64 == "i64"

----------------------------------------------------------------------------
(* The function registry of a plan: anchors and name specs.  A name spec   *)
(* "gte:i32_i32" is the record [name |-> "gte", types |-> <<"i32","i32">>].*)

FuncNames == <<"and", "or", "not", "is_not_null", "is_null",
               "gte", "gt", "lte", "lt", "equal", "in", "eq">>
SigTypes == <<"i32", "i64", "fp64", "str", "bool">>

IndexIn(s, x) == CHOOSE i \in DOMAIN s : s[i] = x

UnaryNames == {"not", "is_not_null", "is_null"}

NameSpec(name, sig) ==
    [name |-> name,
     types |-> IF name \in UnaryNames THEN <<sig>> ELSE <<sig, sig>>]

\* the anchor under which the plans of this model declare name:sig
Anchor(name, sig) ==
    (IndexIn(FuncNames, name) - 1) * Len(SigTypes) + (IndexIn(SigTypes, sig) - 1)

Anchors == 0 .. (Len(FuncNames) * Len(SigTypes) - 1)

\* the extension_function entries of a plan that declares every function
AllExtensionFunctions ==
    [a \in Anchors |->
        NameSpec(FuncNames[(a \div Len(SigTypes)) + 1],
                 SigTypes[(a % Len(SigTypes)) + 1])]

\* SubstraitParser::findSubstraitFuncSpec: a plain lookup (a miss is fatal;
\* the filters of this model only use declared anchors).
findSubstraitFuncSpec(functionMap, id) == functionMap[id]

\* SubstraitParser::getSubFunctionName: the text before ':'.
getSubFunctionName(spec) == spec.name

\* SubstraitParser::getSubFunctionTypes: the type tags after ':'.
getSubFunctionTypes(spec) == spec.types

\* the name the converter resolves a scalar function to
FuncNameOf(functionMap, sFunc) ==
    getSubFunctionName(findSubstraitFuncSpec(functionMap, sFunc.ref))

\* every anchor of the expression has an entry: no lookup of the
\* conversion of the expression misses
RECURSIVE AnchorsResolve(_, _)
AnchorsResolve(functionMap, e) ==
    has_scalar_function(e)
    => /\ e.ref \in DOMAIN functionMap
       /\ \A i \in DOMAIN e.args : AnchorsResolve(functionMap, e.args[i])

----------------------------------------------------------------------------
(* flattenConditions: the scalar functions of a filter, nested 'and's      *)
(* flattened; any expression that is not a scalar function throws.         *)

RECURSIVE flattenConditions(_, _)
RECURSIVE flattenConditionsArgs(_, _, _)

\* the loop over the arguments of 'and' with the leaves of a later argument
\* put before those of an earlier one
RECURSIVE flattenConditionsArgsReversed(_, _, _)
flattenConditionsArgsReversed(fm, args, i) ==
    IF i > Len(args) THEN [ok |-> TRUE, fns |-> <<>>]
    ELSE LET head == flattenConditions(fm, args[i])
             tail == flattenConditionsArgsReversed(fm, args, i + 1)
         IN  IF head.ok /\ tail.ok
             THEN [ok |-> TRUE, fns |-> tail.fns \o head.fns]
             ELSE [ok |-> FALSE, fns |-> <<>>]

flattenConditions(fm, substraitFilter) ==
    IF substraitFilter.rex = "scalarFunction"
    THEN IF FuncNameOf(fm, substraitFilter) = "and"
         THEN flattenConditionsArgs(fm, substraitFilter.args, 1)
         ELSE [ok |-> TRUE, fns |-> <<substraitFilter>>]
    ELSE [ok |-> FALSE, fns |-> <<>>]   \* VELOX_NYI

flattenConditionsArgs(fm, args, i) ==
    IF i > Len(args) THEN [ok |-> TRUE, fns |-> <<>>]
    ELSE LET head == flattenConditions(fm, args[i])
             tail == flattenConditionsArgs(fm, args, i + 1)
         IN  IF head.ok /\ tail.ok
             THEN [ok |-> TRUE, fns |-> head.fns \o tail.fns]
             ELSE [ok |-> FALSE, fns |-> <<>>]

----------------------------------------------------------------------------
(* Pushdown eligibility. *)

\* the value of an uninitialized fieldIndex; the callers read it only when
\* the function returned true
NoField == 0 - 1

\* fieldOrWithLiteral: [res, fieldIndex]
fieldOrWithLiteral(function) ==
    LET args == function.args IN
    IF Len(args) = 1
    THEN IF has_selection(args[1])
         THEN [res |-> TRUE, fieldIndex |-> args[1].col]
         ELSE [res |-> FALSE, fieldIndex |-> NoField]
    ELSE IF Len(args) # 2
    THEN [res |-> FALSE, fieldIndex |-> NoField]
    ELSE LET fieldExists == \E i \in 1..2 : has_selection(args[i])
             literalExists == \E i \in 1..2 : has_literal(args[i])
             \* the loop leaves the index of the last selection
             idx == IF has_selection(args[2]) THEN args[2].col
                    ELSE IF has_selection(args[1]) THEN args[1].col
                    ELSE NoField
         IN  [res |-> fieldExists /\ literalExists, fieldIndex |-> idx]

\* a variant of the check that does not compare the columns of the children
chidrenFunctionsOnAnyField(function) ==
    \A i \in DOMAIN function.args : has_scalar_function(function.args[i])

\* chidrenFunctionsOnSameField
chidrenFunctionsOnSameField(function) ==
    LET args == function.args
        \* an argument that is no scalar function ends the loop with false
        allFunctions == \A i \in DOMAIN args : has_scalar_function(args[i])
        children == {args[i] : i \in {k \in DOMAIN args : has_scalar_function(args[k])}}
        colIndices ==
            UNION {{child.args[j].col :
                       j \in {k \in DOMAIN child.args : has_selection(child.args[k])}} :
                   child \in children}
    IN  allFunctions /\ Cardinality(colIndices) <= 1

\* getColumnIndexFromIn: [ok, colIdx]; the four VELOX_CHECKs throw
getColumnIndexFromIn(scalarFunction) ==
    LET args == scalarFunction.args IN
    IF /\ Len(args) = 2
       /\ has_selection(args[1])
       /\ has_literal(args[2])
       /\ args[2].isList
    THEN [ok |-> TRUE, colIdx |-> args[1].col]
    ELSE [ok |-> FALSE, colIdx |-> NoField]

\* getInColIndices: [ok, inCols]
RECURSIVE getInColIndicesFrom(_, _, _)
getInColIndicesFrom(fm, scalarFunctions, i) ==
    IF i > Len(scalarFunctions) THEN [ok |-> TRUE, inCols |-> {}]
    ELSE LET f == scalarFunctions[i]
             rest == getInColIndicesFrom(fm, scalarFunctions, i + 1)
         IN  IF FuncNameOf(fm, f) = sIn
             THEN IF Len(f.args) = 0 THEN [ok |-> FALSE, inCols |-> {}]
                  ELSE IF has_selection(f.args[1])
                  THEN LET c == getColumnIndexFromIn(f) IN
                       IF c.ok /\ rest.ok
                       THEN [ok |-> TRUE, inCols |-> {c.colIdx} \cup rest.inCols]
                       ELSE [ok |-> FALSE, inCols |-> {}]
                  ELSE rest
             ELSE rest

getInColIndices(fm, scalarFunctions) == getInColIndicesFrom(fm, scalarFunctions, 1)

supportedCommonFunctions == {sIsNotNull, sGte, sGt, sLte, sLt, sEqual, sIn}

\* canPushdownCommonFunction without the rule of the IN columns
canPushdownCommonFunctionAnyColumn(scalarFunction, inCols, filterName) ==
    /\ filterName \in supportedCommonFunctions
    /\ fieldOrWithLiteral(scalarFunction).res

\* canPushdownCommonFunction
canPushdownCommonFunction(scalarFunction, inCols, filterName) ==
    LET fl == fieldOrWithLiteral(scalarFunction) IN
    IF filterName \notin supportedCommonFunctions \/ ~fl.res
    THEN FALSE
    ELSE IF fl.fieldIndex \notin inCols THEN TRUE
    ELSE IF filterName = sIsNotNull \/ filterName = sIn THEN TRUE
    ELSE FALSE

supportedNotFunctions == {sGte, sGt, sLte, sLt, sEqual}

\* a variant of the loop that records the column of the equal and never
\* rejects a column it has recorded before
RECURSIVE notEqualLoopRepeated(_, _, _)
notEqualLoopRepeated(eqArgs, i, notEqualCols) ==
    IF i > Len(eqArgs) THEN [supported |-> TRUE, notEqualCols |-> notEqualCols]
    ELSE IF ~has_selection(eqArgs[i])
    THEN notEqualLoopRepeated(eqArgs, i + 1, notEqualCols)
    ELSE notEqualLoopRepeated(eqArgs, i + 1, notEqualCols \cup {eqArgs[i].col})

\* the loop of canPushdownNot over the arguments of the equal:
\* [supported, notEqualCols]
RECURSIVE notEqualLoop(_, _, _)
notEqualLoop(eqArgs, i, notEqualCols) ==
    IF i > Len(eqArgs) THEN [supported |-> TRUE, notEqualCols |-> notEqualCols]
    ELSE IF ~has_selection(eqArgs[i])
    THEN notEqualLoop(eqArgs, i + 1, notEqualCols)
    ELSE IF eqArgs[i].col \notin notEqualCols
    THEN notEqualLoop(eqArgs, i + 1, notEqualCols \cup {eqArgs[i].col})
    ELSE [supported |-> FALSE, notEqualCols |-> notEqualCols]

\* canPushdownNot: [ok, supported, notEqualCols]
canPushdownNot(fm, scalarFunction, inCols, notEqualCols) ==
    LET args == scalarFunction.args
        no == [ok |-> TRUE, supported |-> FALSE, notEqualCols |-> notEqualCols]
    IN
    IF Len(args) # 1
    THEN [ok |-> FALSE, supported |-> FALSE, notEqualCols |-> notEqualCols]
    ELSE IF ~has_scalar_function(args[1]) THEN no
    ELSE LET notArg == args[1]
             functionName == FuncNameOf(fm, notArg)
             fl == fieldOrWithLiteral(notArg)
         IN  IF \/ functionName \notin supportedNotFunctions
                \/ ~fl.res
                \/ fl.fieldIndex \in inCols
             THEN no
             ELSE IF functionName = sEqual
             THEN LET r == notEqualLoop(notArg.args, 1, notEqualCols) IN
                  [ok |-> TRUE, supported |-> r.supported,
                   notEqualCols |-> r.notEqualCols]
             ELSE [ok |-> TRUE, supported |-> TRUE, notEqualCols |-> notEqualCols]

supportedOrFunctions == {sIsNotNull, sGte, sGt, sLte, sLt, sEqual, sIn}

\* the loop of canPushdownOr over the children, inExists carried along
RECURSIVE canPushdownOrLoop(_, _, _, _, _)
canPushdownOrLoop(fm, args, i, inCols, inExists) ==
    IF i > Len(args) THEN TRUE
    ELSE IF ~has_scalar_function(args[i]) THEN FALSE
    ELSE LET nameSpec == findSubstraitFuncSpec(fm, args[i].ref)
             functionName == getSubFunctionName(nameSpec)
             fl == fieldOrWithLiteral(args[i])
             types == getSubFunctionTypes(nameSpec)
         IN  IF \/ functionName \notin supportedOrFunctions
                \/ ~fl.res
                \/ fl.fieldIndex \in inCols
             THEN FALSE
             ELSE IF functionName = sIn \/ functionName = sIsNotNull
             THEN IF sI32 \in Range(types) \/ sI64 \in Range(types)
                  THEN FALSE
                  ELSE IF functionName = sIn
                  THEN IF inExists THEN FALSE
                       ELSE canPushdownOrLoop(fm, args, i + 1, inCols, TRUE)
                  ELSE canPushdownOrLoop(fm, args, i + 1, inCols, inExists)
             ELSE canPushdownOrLoop(fm, args, i + 1, inCols, inExists)

\* canPushdownOr
canPushdownOr(fm, scalarFunction, inCols) ==
    IF ~chidrenFunctionsOnSameField(scalarFunction) THEN FALSE
    ELSE canPushdownOrLoop(fm, scalarFunction.args, 1, inCols, FALSE)

\* the loop of separateFilters: [ok, sub, rem], notEqualCols carried along
RECURSIVE separateFiltersLoop(_, _, _, _, _)
separateFiltersLoop(fm, scalarFunctions, i, inCols, notEqualCols) ==
    IF i > Len(scalarFunctions) THEN [ok |-> TRUE, sub |-> <<>>, rem |-> <<>>]
    ELSE
    LET f == scalarFunctions[i]
        filterName == FuncNameOf(fm, f)
        n == IF filterName = sNot
             THEN canPushdownNot(fm, f, inCols, notEqualCols)
             ELSE [ok |-> TRUE, supported |-> FALSE, notEqualCols |-> notEqualCols]
        supported ==
            IF filterName # sNot /\ filterName # sOr
            THEN canPushdownCommonFunction(f, inCols, filterName)
            ELSE IF filterName = sNot THEN n.supported
            ELSE canPushdownOr(fm, f, inCols)
        rest == separateFiltersLoop(fm, scalarFunctions, i + 1, inCols, n.notEqualCols)
    IN  IF ~n.ok \/ ~rest.ok THEN [ok |-> FALSE, sub |-> <<>>, rem |-> <<>>]
        ELSE IF supported
        THEN [ok |-> TRUE, sub |-> <<f>> \o rest.sub, rem |-> rest.rem]
        ELSE [ok |-> TRUE, sub |-> rest.sub, rem |-> <<f>> \o rest.rem]

\* separateFilters: [ok, sub (subfieldFunctions), rem (remainingFunctions)]
separateFilters(fm, scalarFunctions) ==
    LET inRes == getInColIndices(fm, scalarFunctions) IN
    IF ~inRes.ok THEN [ok |-> FALSE, sub |-> <<>>, rem |-> <<>>]
    ELSE separateFiltersLoop(fm, scalarFunctions, 1, inRes.inCols, {})

----------------------------------------------------------------------------
(* FilterInfo: what the accumulator keeps for one column. *)

NewFilterInfo ==
    [lowerBounds |-> <<>>, lowerExclusives |-> <<>>,
     upperBounds |-> <<>>, upperExclusives |-> <<>>,
     notValue |-> None, valuesVector |-> <<>>, nullAllowed |-> TRUE]

forbidsNull(fi) == [fi EXCEPT !.nullAllowed = FALSE]

setLower(fi, left, isExclusive) ==
    [fi EXCEPT !.lowerBounds = Append(@, left),
               !.lowerExclusives = Append(@, isExclusive)]

setUpper(fi, right, isExclusive) ==
    [fi EXCEPT !.upperBounds = Append(@, right),
               !.upperExclusives = Append(@, isExclusive)]

setNotValue(fi, notValue) == [fi EXCEPT !.notValue = notValue]

setValues(fi, values) == [fi EXCEPT !.valuesVector = values]

isInitialized(fi) ==
    \/ fi.lowerBounds # <<>>
    \/ fi.upperBounds # <<>>
    \/ fi.notValue # None
    \/ fi.valuesVector # <<>>
    \/ ~fi.nullAllowed

----------------------------------------------------------------------------
(* The accumulator: setColInfoMap, setInValues, setFilterMap and the loop  *)
(* of toSubfieldFilters.  Each returns [ok, map]; ok = FALSE is a throw.   *)

Thrown(colInfoMap) == [ok |-> FALSE, map |-> colInfoMap]
Done(colInfoMap) == [ok |-> TRUE, map |-> colInfoMap]

\* setColInfoMap<T> recording every bound as inclusive
setColInfoMapInclusive(filterName, colIdx, literalVariant, reverse, colInfoMap) ==
    LET fi == colInfoMap[colIdx]
        put(x) == Done([colInfoMap EXCEPT ![colIdx] = x])
    IN
    IF filterName = sIsNotNull
    THEN IF reverse THEN Thrown(colInfoMap) ELSE put(forbidsNull(fi))
    ELSE IF filterName \in {sGte, sGt}
    THEN IF reverse THEN put(setUpper(fi, literalVariant, FALSE))
         ELSE put(setLower(fi, literalVariant, FALSE))
    ELSE IF filterName \in {sLte, sLt}
    THEN IF reverse THEN put(setLower(fi, literalVariant, FALSE))
         ELSE put(setUpper(fi, literalVariant, FALSE))
    ELSE IF filterName = sEqual
    THEN IF reverse THEN put(setNotValue(fi, literalVariant))
         ELSE put(setUpper(setLower(fi, literalVariant, FALSE),
                           literalVariant, FALSE))
    ELSE Thrown(colInfoMap)

\* setColInfoMap<T> with a negated comparison keeping the exclusivity of
\* the comparison itself
setColInfoMapSameExclusivity(filterName, colIdx, literalVariant, reverse, colInfoMap) ==
    LET fi == colInfoMap[colIdx]
        put(x) == Done([colInfoMap EXCEPT ![colIdx] = x])
    IN
    IF filterName = sIsNotNull
    THEN IF reverse THEN Thrown(colInfoMap) ELSE put(forbidsNull(fi))
    ELSE IF filterName \in {sGte, sGt}
    THEN IF reverse THEN put(setUpper(fi, literalVariant, filterName = sGt))
         ELSE put(setLower(fi, literalVariant, filterName = sGt))
    ELSE IF filterName \in {sLte, sLt}
    THEN IF reverse THEN put(setLower(fi, literalVariant, filterName = sLt))
         ELSE put(setUpper(fi, literalVariant, filterName = sLt))
    ELSE IF filterName = sEqual
    THEN IF reverse THEN put(setNotValue(fi, literalVariant))
         ELSE put(setUpper(setLower(fi, literalVariant, FALSE),
                           literalVariant, FALSE))
    ELSE Thrown(colInfoMap)

\* setColInfoMap<T>
setColInfoMap(filterName, colIdx, literalVariant, reverse, colInfoMap) ==
    LET fi == colInfoMap[colIdx]
        put(x) == Done([colInfoMap EXCEPT ![colIdx] = x])
    IN
    IF filterName = sIsNotNull
    THEN IF reverse THEN Thrown(colInfoMap)   \* VELOX_NYI
         ELSE put(forbidsNull(fi))
    ELSE IF filterName = sGte
    THEN IF reverse THEN put(setUpper(fi, literalVariant, TRUE))
         ELSE put(setLower(fi, literalVariant, FALSE))
    ELSE IF filterName = sGt
    THEN IF reverse THEN put(setUpper(fi, literalVariant, FALSE))
         ELSE put(setLower(fi, literalVariant, TRUE))
    ELSE IF filterName = sLte
    THEN IF reverse THEN put(setLower(fi, literalVariant, TRUE))
         ELSE put(setUpper(fi, literalVariant, FALSE))
    ELSE IF filterName = sLt
    THEN IF reverse THEN put(setLower(fi, literalVariant, FALSE))
         ELSE put(setUpper(fi, literalVariant, TRUE))
    ELSE IF filterName = sEqual
    THEN IF reverse THEN put(setNotValue(fi, literalVariant))
         ELSE put(setUpper(setLower(fi, literalVariant, FALSE),
                           literalVariant, FALSE))
    ELSE Thrown(colInfoMap)   \* VELOX_NYI

\* setInValues
setInValues(scalarFunction, colInfoMap) ==
    LET c == getColumnIndexFromIn(scalarFunction) IN
    IF ~c.ok THEN Thrown(colInfoMap)
    ELSE Done([colInfoMap EXCEPT
                  ![c.colIdx] = setValues(@, scalarFunction.args[2].vals)])

\* the column types the subfield filters are built for
FilterTypeKinds == {"INTEGER", "BIGINT", "DOUBLE", "VARCHAR"}

\* setFilterMap
setFilterMap(fm, scalarFunction, inputTypeList, colInfoMap, reverse) ==
    LET functionName == FuncNameOf(fm, scalarFunction)
        args == scalarFunction.args
        sels == {i \in DOMAIN args : has_selection(args[i])}
        lits == {i \in DOMAIN args : has_literal(args[i])}
        \* the loop keeps the last selection and the last literal
        colIdxVal == args[CHOOSE i \in sels : \A j \in sels : j <= i].col
        val == IF lits = {} THEN None
               ELSE Some(args[CHOOSE i \in lits : \A j \in lits : j <= i].val)
    IN
    IF functionName = sIn THEN setInValues(scalarFunction, colInfoMap)
    ELSE IF \E i \in DOMAIN args : ~has_selection(args[i]) /\ ~has_literal(args[i])
    THEN Thrown(colInfoMap)   \* VELOX_NYI: arg type
    ELSE IF sels = {}
    THEN Thrown(colInfoMap)   \* VELOX_NYI: column index is expected
    ELSE IF inputTypeList[colIdxVal + 1] \in FilterTypeKinds
    THEN setColInfoMap(functionName, colIdxVal, val, reverse, colInfoMap)
    ELSE Thrown(colInfoMap)   \* VELOX_NYI: input type

\* the children of a pushed 'or', each applied to the map in turn
RECURSIVE setFilterMapOfChildren(_, _, _, _, _)
setFilterMapOfChildren(fm, args, i, inputTypeList, colInfoMap) ==
    IF i > Len(args) THEN Done(colInfoMap)
    ELSE LET r == setFilterMap(fm, args[i], inputTypeList, colInfoMap, FALSE) IN
         IF ~r.ok THEN r
         ELSE setFilterMapOfChildren(fm, args, i + 1, inputTypeList, r.map)

\* the loop of toSubfieldFilters over the pushdown candidates
RECURSIVE toSubfieldFiltersLoop(_, _, _, _, _)
toSubfieldFiltersLoop(fm, scalarFunctions, i, inputTypeList, colInfoMap) ==
    IF i > Len(scalarFunctions) THEN Done(colInfoMap)
    ELSE
    LET f == scalarFunctions[i]
        filterName == FuncNameOf(fm, f)
        r == IF filterName = sNot
             THEN IF Len(f.args) = 1 /\ has_scalar_function(f.args[1])
                  THEN setFilterMap(fm, f.args[1], inputTypeList, colInfoMap, TRUE)
                  ELSE Thrown(colInfoMap)   \* VELOX_CHECK
             ELSE IF filterName = sOr
             THEN IF /\ Len(f.args) = 2
                     /\ \A k \in DOMAIN f.args : has_scalar_function(f.args[k])
                  THEN setFilterMapOfChildren(fm, f.args, 1, inputTypeList, colInfoMap)
                  ELSE Thrown(colInfoMap)   \* VELOX_CHECK
             ELSE setFilterMap(fm, f, inputTypeList, colInfoMap, FALSE)
    IN  IF ~r.ok THEN r
        ELSE toSubfieldFiltersLoop(fm, scalarFunctions, i + 1, inputTypeList, r.map)

----------------------------------------------------------------------------
(* The filter primitives of the scan reader (velox/type/Filter.h).         *)

\* std::numeric_limits<T>::lowest() and ::max(), scaled to the value domain
\* of the model: below and above every column value and literal
kNumericLowest == -1000
kNumericMax == 1000
\* the empty string, the least value of a textual column
kEmptyString == 0

\* getLowest<NativeType>()
getLowest(KIND) == IF KIND = "VARCHAR" THEN kEmptyString ELSE kNumericLowest

\* getMax<NativeType>()
getMax(KIND) == IF KIND = "VARCHAR" THEN kEmptyString ELSE kNumericMax

\* RangeTraits<KIND>::RangeType
RangeType(KIND) ==
    CASE KIND = "INTEGER" -> "BigintRange"
      [] KIND = "BIGINT" -> "BigintRange"
      [] KIND = "DOUBLE" -> "DoubleRange"
      [] KIND = "VARCHAR" -> "BytesRange"

\* RangeTraits<KIND>::MultiRangeType
MultiRangeType(KIND) ==
    CASE KIND = "INTEGER" -> "BigintMultiRange"
      [] KIND = "BIGINT" -> "BigintMultiRange"
      [] KIND = "DOUBLE" -> "MultiRange"
      [] KIND = "VARCHAR" -> "MultiRange"

\* a range primitive, with the arguments of its constructor
MakeRange(kind, lower, lowerUnbounded, lowerExclusive, upper, upperUnbounded, upperExclusive, nullAllowed) ==
    [kind |-> kind,
     lower |-> lower, lowerUnbounded |-> lowerUnbounded,
     lowerExclusive |-> lowerExclusive,
     upper |-> upper, upperUnbounded |-> upperUnbounded,
     upperExclusive |-> upperExclusive,
     nullAllowed |-> nullAllowed]

\* a multi-range primitive: the disjunction of its ranges
MakeMultiRange(kind, colFilters, nullAllowed) ==
    [kind |-> kind, filters |-> colFilters, nullAllowed |-> nullAllowed]

\* a value-set primitive
MakeValues(kind, values, nullAllowed) ==
    [kind |-> kind, values |-> values, nullAllowed |-> nullAllowed]

MakeIsNotNull == [kind |-> "IsNotNull", nullAllowed |-> FALSE]

SeqMax(s) == CHOOSE x \in Range(s) : \A y \in Range(s) : y <= x
SeqMin(s) == CHOOSE x \in Range(s) : \A y \in Range(s) : x <= y

\* common::createBigintValues: a bitmask when the values span a small range,
\* a hash table otherwise
createBigintValues(values, nullAllowed) ==
    LET range == SeqMax(values) - SeqMin(values) IN
    IF range < 32 * 64 \/ range < Len(values) * 4 * 64
    THEN MakeValues("BigintValuesUsingBitmask", values, nullAllowed)
    ELSE MakeValues("BigintValuesUsingHashTable", values, nullAllowed)

\* common::createDoubleValues
createDoubleValues(values, nullAllowed) ==
    MakeValues("DoubleValues", values, nullAllowed)

\* the kinds of value-set primitives
ValuesKinds == {"BigintValuesUsingBitmask", "BigintValuesUsingHashTable",
                "DoubleValues", "BytesValues"}
RangeKinds == {"BigintRange", "DoubleRange", "BytesRange"}
MultiRangeKinds == {"BigintMultiRange", "MultiRange"}

\* the value of a column that is NULL in a row
Null == 0 - 1

\* Filter::testNull / testInt64 / testDouble / testBytes on one column value
RECURSIVE TestFilter(_, _)
TestFilter(f, v) ==
    IF f.kind = "IsNotNull" THEN v # Null
    ELSE IF v = Null THEN f.nullAllowed
    ELSE IF f.kind \in ValuesKinds THEN v \in Range(f.values)
    ELSE IF f.kind \in MultiRangeKinds
    THEN \E i \in DOMAIN f.filters : TestFilter(f.filters[i], v)
    ELSE /\ \/ f.lowerUnbounded
            \/ IF f.lowerExclusive THEN v > f.lower ELSE v >= f.lower
         /\ \/ f.upperUnbounded
            \/ IF f.upperExclusive THEN v < f.upper ELSE v <= f.upper

----------------------------------------------------------------------------
(* The subfield filter builder.  The emitted map is a function from the    *)
(* column index (its name in the schema, names being unique) to a filter.  *)

PutFilter(filters, colIdx, f) ==
    [c \in (DOMAIN filters) \cup {colIdx} |-> IF c = colIdx THEN f ELSE filters[c]]

\* createNotEqualFilter with the value itself inside both ranges
createNotEqualFilterInclusive(KIND, notVariant, nullAllowed, colFilters) ==
    colFilters \o
    << MakeRange(RangeType(KIND), notVariant, FALSE, FALSE,
                 getMax(KIND), TRUE, FALSE, nullAllowed),
       MakeRange(RangeType(KIND), getLowest(KIND), TRUE, FALSE,
                 notVariant, FALSE, FALSE, nullAllowed) >>

\* createNotEqualFilter<KIND, FilterType>: the two ranges appended to colFilters
createNotEqualFilter(KIND, notVariant, nullAllowed, colFilters) ==
    colFilters \o
    << MakeRange(RangeType(KIND), notVariant, FALSE, TRUE,
                 getMax(KIND), TRUE, FALSE, nullAllowed),
       MakeRange(RangeType(KIND), getLowest(KIND), TRUE, FALSE,
                 notVariant, FALSE, TRUE, nullAllowed) >>

\* setInFilter<KIND>
setInFilter(KIND, variants, nullAllowed, colIdx, filters) ==
    CASE KIND = "DOUBLE" ->
            PutFilter(filters, colIdx, createDoubleValues(variants, nullAllowed))
      [] KIND = "BIGINT" ->
            PutFilter(filters, colIdx, createBigintValues(variants, nullAllowed))
      [] KIND = "INTEGER" ->
            PutFilter(filters, colIdx, createBigintValues(variants, nullAllowed))
      [] KIND = "VARCHAR" ->
            PutFilter(filters, colIdx, MakeValues("BytesValues", variants, nullAllowed))
      [] OTHER -> filters

\* setSubfieldFilter<KIND, FilterType>
setSubfieldFilter(KIND, colFilters, colIdx, nullAllowed, filters) ==
    IF Len(colFilters) = 1
    THEN PutFilter(filters, colIdx, colFilters[1])
    ELSE IF Len(colFilters) > 1
    THEN PutFilter(filters, colIdx,
                   MakeMultiRange(MultiRangeType(KIND), colFilters, nullAllowed))
    ELSE filters

\* the local variables of the range loop of constructSubfieldFilters
RangeLocals(KIND) ==
    [lowerBound |-> getLowest(KIND), upperBound |-> getMax(KIND),
     lowerUnbounded |-> TRUE, upperUnbounded |-> TRUE,
     lowerExclusive |-> FALSE, upperExclusive |-> FALSE]

\* the range loop of constructSubfieldFilters, from index idx (0-based) on,
\* with the locals as the previous iterations left them
RECURSIVE rangeLoop(_, _, _, _, _)
rangeLoop(KIND, filterInfo, idx, rangeSize, loc) ==
    IF idx >= rangeSize THEN <<>>
    ELSE
    LET hasLower == /\ idx < Len(filterInfo.lowerBounds)
                    /\ filterInfo.lowerBounds[idx + 1] # None
        hasUpper == /\ idx < Len(filterInfo.upperBounds)
                    /\ filterInfo.upperBounds[idx + 1] # None
        l1 == IF hasLower
              THEN [loc EXCEPT !.lowerUnbounded = FALSE,
                               !.lowerBound = filterInfo.lowerBounds[idx + 1][1],
                               !.lowerExclusive = filterInfo.lowerExclusives[idx + 1]]
              ELSE loc
        l2 == IF hasUpper
              THEN [l1 EXCEPT !.upperUnbounded = FALSE,
                              !.upperBound = filterInfo.upperBounds[idx + 1][1],
                              !.upperExclusive = filterInfo.upperExclusives[idx + 1]]
              ELSE l1
        filter == MakeRange(RangeType(KIND),
                            l2.lowerBound, l2.lowerUnbounded, l2.lowerExclusive,
                            l2.upperBound, l2.upperUnbounded, l2.upperExclusive,
                            filterInfo.nullAllowed)
    IN  <<filter>> \o rangeLoop(KIND, filterInfo, idx + 1, rangeSize, l2)

Max2(a, b) == IF a >= b THEN a ELSE b

\* constructSubfieldFilters without the checks that keep the IN values
\* apart: the range of the column replaces the values filter
constructSubfieldFiltersNoInCheck(KIND, colIdx, filterInfo, filters) ==
    LET rangeSize == Max2(Len(filterInfo.lowerBounds), Len(filterInfo.upperBounds))
    IN
    IF ~isInitialized(filterInfo) THEN [ok |-> TRUE, filters |-> filters]
    ELSE IF rangeSize > 0
    THEN [ok |-> TRUE,
          filters |->
            setSubfieldFilter(KIND,
                rangeLoop(KIND, filterInfo, 0, rangeSize, RangeLocals(KIND)),
                colIdx, filterInfo.nullAllowed, filters)]
    ELSE IF Len(filterInfo.valuesVector) > 0
    THEN [ok |-> TRUE,
          filters |-> setInFilter(KIND, filterInfo.valuesVector,
                                  filterInfo.nullAllowed, colIdx, filters)]
    ELSE IF filterInfo.notValue # None
    THEN [ok |-> TRUE,
          filters |->
            PutFilter(filters, colIdx,
               MakeMultiRange(MultiRangeType(KIND),
                   createNotEqualFilter(KIND, filterInfo.notValue[1],
                                        filterInfo.nullAllowed, <<>>),
                   filterInfo.nullAllowed))]
    ELSE [ok |-> TRUE, filters |-> PutFilter(filters, colIdx, MakeIsNotNull)]

\* constructSubfieldFilters with an unbounded range, instead of IsNotNull,
\* for a column of which only the nulls are filtered
constructSubfieldFiltersDegenerateRange(KIND, colIdx, filterInfo, filters) ==
    LET rangeSize == Max2(Len(filterInfo.lowerBounds), Len(filterInfo.upperBounds))
        nullAllowed == filterInfo.nullAllowed
    IN
    IF ~isInitialized(filterInfo) THEN [ok |-> TRUE, filters |-> filters]
    ELSE IF Len(filterInfo.valuesVector) > 0
    THEN \* the two VELOX_CHECKs after setInFilter
         IF rangeSize = 0 /\ filterInfo.notValue = None
         THEN [ok |-> TRUE,
               filters |-> setInFilter(KIND, filterInfo.valuesVector,
                                       nullAllowed, colIdx, filters)]
         ELSE [ok |-> FALSE, filters |-> filters]
    ELSE IF filterInfo.notValue # None
    THEN IF rangeSize = 0
         THEN [ok |-> TRUE,
               filters |->
                 PutFilter(filters, colIdx,
                    MakeMultiRange(MultiRangeType(KIND),
                        createNotEqualFilter(KIND, filterInfo.notValue[1],
                                             filterInfo.nullAllowed, <<>>),
                        nullAllowed))]
         ELSE [ok |-> FALSE, filters |-> filters]   \* VELOX_CHECK
    ELSE IF rangeSize = 0 /\ ~nullAllowed
    THEN [ok |-> TRUE,
          filters |->
            PutFilter(filters, colIdx,
                MakeRange(RangeType(KIND), getLowest(KIND), TRUE, FALSE,
                          getMax(KIND), TRUE, FALSE, nullAllowed))]
    ELSE [ok |-> TRUE,
          filters |->
            setSubfieldFilter(KIND,
                rangeLoop(KIND, filterInfo, 0, rangeSize, RangeLocals(KIND)),
                colIdx, filterInfo.nullAllowed, filters)]

\* constructSubfieldFilters<KIND, FilterType>: [ok, filters]
constructSubfieldFilters(KIND, colIdx, filterInfo, filters) ==
    LET rangeSize == Max2(Len(filterInfo.lowerBounds), Len(filterInfo.upperBounds))
        nullAllowed == filterInfo.nullAllowed
    IN
    IF ~isInitialized(filterInfo) THEN [ok |-> TRUE, filters |-> filters]
    ELSE IF Len(filterInfo.valuesVector) > 0
    THEN \* the two VELOX_CHECKs after setInFilter
         IF rangeSize = 0 /\ filterInfo.notValue = None
         THEN [ok |-> TRUE,
               filters |-> setInFilter(KIND, filterInfo.valuesVector,
                                       nullAllowed, colIdx, filters)]
         ELSE [ok |-> FALSE, filters |-> filters]
    ELSE IF filterInfo.notValue # None
    THEN IF rangeSize = 0
         THEN [ok |-> TRUE,
               filters |->
                 PutFilter(filters, colIdx,
                    MakeMultiRange(MultiRangeType(KIND),
                        createNotEqualFilter(KIND, filterInfo.notValue[1],
                                             filterInfo.nullAllowed, <<>>),
                        nullAllowed))]
         ELSE [ok |-> FALSE, filters |-> filters]   \* VELOX_CHECK
    ELSE IF rangeSize = 0 /\ ~nullAllowed   \* null filtering
    THEN [ok |-> TRUE, filters |-> PutFilter(filters, colIdx, MakeIsNotNull)]
    ELSE [ok |-> TRUE,
          filters |->
            setSubfieldFilter(KIND,
                rangeLoop(KIND, filterInfo, 0, rangeSize, RangeLocals(KIND)),
                colIdx, filterInfo.nullAllowed, filters)]

\* mapToFilters: [ok, filters]; the loop runs over the columns of the schema
RECURSIVE mapToFiltersLoop(_, _, _, _)
mapToFiltersLoop(inputTypeList, colInfoMap, colIdx, filters) ==
    IF colIdx >= Len(inputTypeList) THEN [ok |-> TRUE, filters |-> filters]
    ELSE IF inputTypeList[colIdx + 1] \in FilterTypeKinds
    THEN LET r == constructSubfieldFilters(inputTypeList[colIdx + 1], colIdx,
                                           colInfoMap[colIdx], filters)
         IN  IF ~r.ok THEN r
             ELSE mapToFiltersLoop(inputTypeList, colInfoMap, colIdx + 1, r.filters)
    ELSE [ok |-> FALSE, filters |-> filters]   \* VELOX_NYI

NoFilters == [c \in {} |-> MakeIsNotNull]

mapToFilters(inputTypeList, colInfoMap) ==
    mapToFiltersLoop(inputTypeList, colInfoMap, 0, NoFilters)

\* the map toSubfieldFilters starts from: one FilterInfo per column
NewColInfoMap(inputTypeList) ==
    [idx \in 0 .. (Len(inputTypeList) - 1) |-> NewFilterInfo]

\* the accumulation of toSubfieldFilters: [ok, map]
colInfoMapOf(fm, inputTypeList, scalarFunctions) ==
    toSubfieldFiltersLoop(fm, scalarFunctions, 1, inputTypeList,
                          NewColInfoMap(inputTypeList))

\* toSubfieldFilters: [ok, filters]
toSubfieldFilters(fm, inputTypeList, scalarFunctions) ==
    LET acc == colInfoMapOf(fm, inputTypeList, scalarFunctions) IN
    IF ~acc.ok THEN [ok |-> FALSE, filters |-> NoFilters]
    ELSE mapToFilters(inputTypeList, acc.map)

----------------------------------------------------------------------------
(* The expression converter (SubstraitVeloxExprConverter::toVeloxExpr):    *)
(* a field reference becomes a field access, a literal a constant, a       *)
(* scalar function a call of the function its anchor names.                *)

RECURSIVE toVeloxExpr(_, _)
toVeloxExpr(fm, sExpr) ==
    CASE sExpr.rex = "selection" ->
            [expr |-> "FieldAccess", field |-> sExpr.col]
      [] sExpr.rex = "literal" ->
            [expr |-> "Constant", isList |-> sExpr.isList,
             value |-> sExpr.val, values |-> sExpr.vals]
      [] sExpr.rex = "scalarFunction" ->
            [expr |-> "Call", name |-> FuncNameOf(fm, sExpr),
             inputs |-> [i \in DOMAIN sExpr.args |-> toVeloxExpr(fm, sExpr.args[i])]]

\* a null typed expression pointer
NullExpr == [expr |-> "nullptr"]

\* connectWithAnd: the loop from idx (1-based here) on
RECURSIVE connectWithAndLoop(_, _, _, _)
connectWithAndLoop(fm, remainingFunctions, idx, remainingFilter) ==
    IF idx > Len(remainingFunctions) THEN remainingFilter
    ELSE connectWithAndLoop(fm, remainingFunctions, idx + 1,
            [expr |-> "Call", name |-> "and",
             inputs |-> <<remainingFilter,
                          toVeloxExpr(fm, remainingFunctions[idx])>>])

\* connectWithAnd
connectWithAnd(fm, remainingFunctions) ==
    IF Len(remainingFunctions) = 0 THEN NullExpr
    ELSE connectWithAndLoop(fm, remainingFunctions, 2,
                            toVeloxExpr(fm, remainingFunctions[1]))

----------------------------------------------------------------------------
(* isPushDownSupportedByFormat *)

ParquetSupportedKinds ==
    {"BigintRange", "DoubleRange", "BytesValues", "BytesRange",
     "BigintValuesUsingBitmask", "BigintValuesUsingHashTable"}

\* isPushDownSupportedByFormat taking IsNotNull for a kind PARQUET supports
isPushDownSupportedByFormatWithIsNotNull(format, subfieldFilters) ==
    IF format = "PARQUET"
    THEN \A c \in DOMAIN subfieldFilters :
            subfieldFilters[c].kind \in ParquetSupportedKinds \cup {"IsNotNull"}
    ELSE TRUE

isPushDownSupportedByFormat(format, subfieldFilters) ==
    IF format = "PARQUET"
    THEN \A c \in DOMAIN subfieldFilters :
            subfieldFilters[c].kind \in ParquetSupportedKinds
    ELSE TRUE

----------------------------------------------------------------------------
(* streamIsInput.  A file URI is a sequence of tokens: the text            *)
(* "iterator:" is one token, every other token is one character.           *)

kIteratorPrefix == "iterator:"
Digits == <<"0", "1", "2", "3", "4", "5", "6", "7", "8", "9">>
IsDigit(t) == \E i \in DOMAIN Digits : Digits[i] = t
DigitValue(t) == IndexIn(Digits, t) - 1

\* std::string::find: the first position of the prefix, 0 for npos
FindPrefix(filePath) ==
    IF \E i \in DOMAIN filePath : filePath[i] = kIteratorPrefix
    THEN CHOOSE i \in DOMAIN filePath :
            /\ filePath[i] = kIteratorPrefix
            /\ \A j \in 1 .. (i - 1) : filePath[j] # kIteratorPrefix
    ELSE 0

\* the digits std::stoi reads from position i on, as a number
RECURSIVE StoiDigits(_, _, _)
StoiDigits(str, i, acc) ==
    IF i <= Len(str) /\ IsDigit(str[i])
    THEN StoiDigits(str, i + 1, acc * 10 + DigitValue(str[i]))
    ELSE acc

\* the leading white space std::stoi skips
RECURSIVE SkipSpace(_, _)
SkipSpace(str, i) ==
    IF i <= Len(str) /\ str[i] = " " THEN SkipSpace(str, i + 1) ELSE i

\* std::stoi: [ok, value]; it skips white space, reads a sign and the digits
\* that follow, ignores what comes after them, and throws when there is no digit
stoi(str) ==
    LET i == SkipSpace(str, 1)
        signed == i <= Len(str) /\ str[i] \in {"-", "+"}
        j == IF signed THEN i + 1 ELSE i
        magnitude == StoiDigits(str, j, 0)
    IN  IF j <= Len(str) /\ IsDigit(str[j])
        THEN [ok |-> TRUE,
              value |-> IF signed /\ str[i] = "-" THEN 0 - magnitude ELSE magnitude]
        ELSE [ok |-> FALSE, value |-> 0]

\* streamIsInput taking the index one position too far behind the prefix
streamIsInputOffByOne(validationMode, sRead) ==
    IF sRead.hasLocalFiles
    THEN IF Len(sRead.files) = 0 THEN [ok |-> FALSE, idx |-> 0 - 1]
         ELSE LET filePath == sRead.files[1].uri_file
                  pos == FindPrefix(filePath)
              IN  IF pos = 0 THEN [ok |-> TRUE, idx |-> 0 - 1]
                  ELSE LET n == stoi(SubSeq(filePath, pos + 2, Len(filePath))) IN
                       IF n.ok THEN [ok |-> TRUE, idx |-> n.value]
                       ELSE [ok |-> FALSE, idx |-> 0 - 1]
    ELSE IF validationMode THEN [ok |-> TRUE, idx |-> 0 - 1]
    ELSE [ok |-> FALSE, idx |-> 0 - 1]

\* streamIsInput: [ok, idx]
streamIsInput(validationMode, sRead) ==
    IF sRead.hasLocalFiles
    THEN IF Len(sRead.files) = 0 THEN [ok |-> FALSE, idx |-> 0 - 1]
         ELSE LET filePath == sRead.files[1].uri_file
                  pos == FindPrefix(filePath)
              IN  IF pos = 0 THEN [ok |-> TRUE, idx |-> 0 - 1]
                  ELSE LET n == stoi(SubSeq(filePath, pos + 1, Len(filePath))) IN
                       IF n.ok THEN [ok |-> TRUE, idx |-> n.value]
                       ELSE [ok |-> FALSE, idx |-> 0 - 1]
    ELSE IF validationMode THEN [ok |-> TRUE, idx |-> 0 - 1]
    ELSE [ok |-> FALSE, idx |-> 0 - 1]

----------------------------------------------------------------------------
(* toVeloxPlan(ReadRel).  The converter is the record                      *)
(* [planNodeId, splitInfoMap, functionMap, inputNodesMap, validationMode]; *)
(* a conversion returns [ok, node, conv]: whether it returned or threw,    *)
(* the node, and the converter as the call left it.                        *)

Threw(conv) == [ok |-> FALSE, node |-> [kind |-> "none"], conv |-> conv]
Returned(node, conv) == [ok |-> TRUE, node |-> node, conv |-> conv]

\* a SplitInfo as std::make_shared<SplitInfo>() leaves it
NewSplitInfo ==
    [isStream |-> FALSE, partitionIndex |-> 0, paths |-> <<>>,
     starts |-> <<>>, lengths |-> <<>>, format |-> "UNKNOWN"]

\* the file format of a format code of local_files
FileFormatOf(format) ==
    IF format = 2 \/ format = 3 THEN "DWRF"
    ELSE IF format = 1 THEN "PARQUET"
    ELSE "UNKNOWN"

\* the loop over local_files that fills the split info
RECURSIVE splitInfoLoop(_, _, _)
splitInfoLoop(fileList, i, splitInfo) ==
    IF i > Len(fileList) THEN splitInfo
    ELSE LET file == fileList[i] IN
         splitInfoLoop(fileList, i + 1,
            [splitInfo EXCEPT !.partitionIndex = file.partition_index,
                              !.paths = Append(@, file.uri_file),
                              !.starts = Append(@, file.start),
                              !.lengths = Append(@, file.length),
                              !.format = FileFormatOf(file.format)])

splitInfoOf(sRead) ==
    IF sRead.hasLocalFiles THEN splitInfoLoop(sRead.files, 1, NewSplitInfo)
    ELSE NewSplitInfo

kHiveConnectorId == "test-hive"

\* the HiveTableHandle of a scan
HiveTableHandle(subfieldFilters, remainingFilter) ==
    [connectorId |-> kHiveConnectorId, tableName |-> "hive_table",
     filterPushdownEnabled |-> TRUE,
     subfieldFilters |-> subfieldFilters, remainingFilter |-> remainingFilter]

\* the veto keeping only the residuals: the pushdown candidates are lost
pushdownOrVetoResidualsOnly(fm, format, scalarFunctions, remainingFunctions, subfieldFilters) ==
    IF ~isPushDownSupportedByFormat(format, subfieldFilters)
    THEN [subfieldFilters |-> NoFilters,
          remainingFilter |-> connectWithAnd(fm, remainingFunctions)]
    ELSE [subfieldFilters |-> subfieldFilters,
          remainingFilter |-> connectWithAnd(fm, remainingFunctions)]

\* the choice between the pushed filters and the format veto:
\* [subfieldFilters, remainingFilter]
pushdownOrVeto(fm, format, scalarFunctions, remainingFunctions, subfieldFilters) ==
    IF ~isPushDownSupportedByFormat(format, subfieldFilters)
    THEN [subfieldFilters |-> NoFilters,
          remainingFilter |-> connectWithAnd(fm, scalarFunctions)]
    ELSE [subfieldFilters |-> subfieldFilters,
          remainingFilter |-> connectWithAnd(fm, remainingFunctions)]

\* the table handle of a ReadRel: [ok, handle]
tableHandleOf(fm, format, inputTypeList, sRead) ==
    LET failed == [ok |-> FALSE, handle |-> HiveTableHandle(NoFilters, NullExpr)] IN
    IF ~sRead.hasFilter
    THEN [ok |-> TRUE, handle |-> HiveTableHandle(NoFilters, NullExpr)]
    ELSE IF ~AnchorsResolve(fm, sRead.filter) THEN failed
    ELSE Only({
        IF ~flat.ok THEN failed
        ELSE Only({
            IF ~sep.ok THEN failed
            ELSE Only({
                IF ~sub.ok THEN failed
                ELSE Only({
                    [ok |-> TRUE,
                     handle |-> HiveTableHandle(pv.subfieldFilters,
                                                pv.remainingFilter)] :
                    pv \in {pushdownOrVeto(fm, format, flat.fns, sep.rem,
                                           sub.filters)}}) :
                sub \in {toSubfieldFilters(fm, inputTypeList, sep.sub)}}) :
            sep \in {separateFilters(fm, flat.fns)}}) :
        flat \in {flattenConditions(fm, sRead.filter)}})

\* SubstraitParser::makeNodeName(planNodeId_, idx): "n<id>_<idx>"
makeNodeName(nodeId, colIdx) == <<nodeId, colIdx>>

\* the id of a pre-registered input node: unlike every id of the counter
InputNodeId(idx) == 0 - (idx + 1)

\* one row vector of a virtual table: the children of values(index)
rowVectorOf(rowValue, numColumns, batchSize) ==
    [size |-> batchSize,
     children |->
        [col \in 1 .. numColumns |->
            [batchId \in 1 .. batchSize |->
                rowValue[(col - 1) * batchSize + batchId].val]]]

\* toVeloxPlan(ReadRel, RowTypePtr) without the VELOX_CHECK_EQ on the field
\* count of a values entry; a missing field reads as 0
toVeloxPlanVirtualTableUnchecked(conv, sRead, type) ==
    LET values == sRead.virtualTable
        numVectors == Len(values)
        numColumns == Len(type)
        batchSize == Len(values[numVectors]) \div numColumns
    IN  Returned(
            [kind |-> "Values", id |-> conv.planNodeId,
             vectors |->
                [index \in 1 .. numVectors |->
                    [size |-> batchSize,
                     children |->
                        [col \in 1 .. numColumns |->
                            [batchId \in 1 .. batchSize |->
                                IF (col - 1) * batchSize + batchId
                                      \in DOMAIN values[index]
                                THEN values[index][(col - 1) * batchSize + batchId].val
                                ELSE 0]]]]],
            [conv EXCEPT !.planNodeId = @ + 1])

\* toVeloxPlan(ReadRel, RowTypePtr): the Values node of a virtual table.
\* The tables of this model have at least one values entry and one column:
\* values(-1) and the division by zero are undefined, and the guard below
\* is never taken.
toVeloxPlanVirtualTable(conv, sRead, type) ==
    LET values == sRead.virtualTable
        numVectors == Len(values)
        numColumns == Len(type)
        valueFieldNums == Len(values[numVectors])
        batchSize == valueFieldNums \div numColumns
    IN  IF numVectors = 0 \/ numColumns = 0 THEN Threw(conv)
        ELSE IF \E index \in 1 .. numVectors :
                    Len(values[index]) # batchSize * numColumns
        THEN Threw(conv)   \* VELOX_CHECK_EQ
        ELSE Returned(
                [kind |-> "Values", id |-> conv.planNodeId,
                 vectors |-> [index \in 1 .. numVectors |->
                                rowVectorOf(values[index], numColumns, batchSize)]],
                [conv EXCEPT !.planNodeId = @ + 1])

\* the TableScan (or Values) node of a ReadRel that is no stream
toVeloxPlanScan(conv, sRead, veloxTypeList, splitInfo, th) ==
    IF ~th.ok THEN Threw(conv)
    ELSE IF sRead.hasVirtualTable
    THEN toVeloxPlanVirtualTable(conv, sRead, veloxTypeList)
    ELSE Returned(
            [kind |-> "TableScan", id |-> conv.planNodeId,
             outputType |->
                [names |-> [idx \in DOMAIN veloxTypeList |->
                               makeNodeName(conv.planNodeId, idx - 1)],
                 types |-> veloxTypeList],
             tableHandle |-> th.handle],
            [conv EXCEPT
                !.planNodeId = @ + 1,
                !.splitInfoMap =
                    [id \in (DOMAIN @) \cup {conv.planNodeId} |->
                        IF id = conv.planNodeId THEN splitInfo ELSE @[id]]])

\* the pre-built input node of a ReadRel that is a stream
toVeloxPlanStream(conv, streamIdx) ==
    IF streamIdx \notin DOMAIN conv.inputNodesMap THEN Threw(conv)
    ELSE LET streamNode == conv.inputNodesMap[streamIdx] IN
         Returned(streamNode,
             [conv EXCEPT !.splitInfoMap =
                 [id \in (DOMAIN @) \cup {streamNode.id} |->
                     IF id = streamNode.id
                     THEN [NewSplitInfo EXCEPT !.isStream = TRUE]
                     ELSE @[id]]])

\* toVeloxPlan(ReadRel) once streamIsInput has returned or thrown
toVeloxPlanReadOf(conv, sRead, stream, veloxTypeList, splitInfo) ==
    IF ~stream.ok THEN Threw(conv)
    ELSE IF stream.idx >= 0 THEN toVeloxPlanStream(conv, stream.idx)
    ELSE toVeloxPlanScan(conv, sRead, veloxTypeList, splitInfo,
            tableHandleOf(conv.functionMap, splitInfo.format, veloxTypeList, sRead))

\* toVeloxPlan(ReadRel)
toVeloxPlanRead(conv, sRead) ==
    toVeloxPlanReadOf(conv, sRead, streamIsInput(conv.validationMode, sRead),
        IF sRead.hasBaseSchema THEN sRead.types ELSE <<>>,
        splitInfoOf(sRead))

----------------------------------------------------------------------------
(* Joins, relations and plans.  A Rel is [kind |-> "read", read],          *)
(* [kind |-> "join", join] or [kind |-> "none"]; the ON-expressions of     *)
(* this model give every 'and' at least two arguments and every 'eq' two.  *)

\* SubstraitParser::findVeloxFunction: the lookup of the anchor
findVeloxFunction(functionMap, id) == findSubstraitFuncSpec(functionMap, id)

\* extractJoinKeys with the pending expressions served first in, first out
RECURSIVE extractJoinKeysFifo(_, _, _, _)
extractJoinKeysFifo(fm, expressions, leftExprs, rightExprs) ==
    IF expressions = <<>>
    THEN [ok |-> TRUE, leftExprs |-> leftExprs, rightExprs |-> rightExprs]
    ELSE
    LET visited == Head(expressions)
        rest == Tail(expressions)
        failed == [ok |-> FALSE, leftExprs |-> leftExprs, rightExprs |-> rightExprs]
    IN  IF ~has_scalar_function(visited) THEN failed
        ELSE IF visited.ref \notin DOMAIN fm THEN failed
        ELSE
        LET funcName == getSubFunctionName(findVeloxFunction(fm, visited.ref))
            args == visited.args
        IN  IF funcName = "and"
            THEN extractJoinKeysFifo(fm, rest \o <<args[1], args[2]>>,
                                     leftExprs, rightExprs)
            ELSE IF funcName = "eq"
            THEN IF \A i \in DOMAIN args : has_selection(args[i])
                 THEN extractJoinKeysFifo(fm, rest, Append(leftExprs, args[1]),
                                          Append(rightExprs, args[2]))
                 ELSE failed
            ELSE failed

\* extractJoinKeys: the while loop over the stack of pending expressions;
\* [ok, leftExprs, rightExprs]
RECURSIVE extractJoinKeysLoop(_, _, _, _)
extractJoinKeysLoop(fm, expressions, leftExprs, rightExprs) ==
    IF expressions = <<>>
    THEN [ok |-> TRUE, leftExprs |-> leftExprs, rightExprs |-> rightExprs]
    ELSE
    LET visited == expressions[Len(expressions)]
        rest == SubSeq(expressions, 1, Len(expressions) - 1)
        failed == [ok |-> FALSE, leftExprs |-> leftExprs, rightExprs |-> rightExprs]
    IN  IF ~has_scalar_function(visited) THEN failed       \* VELOX_FAIL
        ELSE IF visited.ref \notin DOMAIN fm THEN failed   \* the lookup misses
        ELSE
        LET funcName == getSubFunctionName(findVeloxFunction(fm, visited.ref))
            args == visited.args
        IN  IF funcName = "and"
            THEN extractJoinKeysLoop(fm, rest \o <<args[1], args[2]>>,
                                     leftExprs, rightExprs)
            ELSE IF funcName = "eq"
            THEN IF \A i \in DOMAIN args : has_selection(args[i])
                 THEN extractJoinKeysLoop(fm, rest, Append(leftExprs, args[1]),
                                          Append(rightExprs, args[2]))
                 ELSE failed                                \* VELOX_CHECK
            ELSE failed                                     \* VELOX_NYI

extractJoinKeys(fm, joinExpression) ==
    extractJoinKeysLoop(fm, <<joinExpression>>, <<>>, <<>>)

\* the join type of a JoinRel type: [ok, joinType]
JoinTypeOf(type) ==
    CASE type = "JOIN_TYPE_INNER" -> [ok |-> TRUE, joinType |-> "kInner"]
      [] type = "JOIN_TYPE_OUTER" -> [ok |-> TRUE, joinType |-> "kFull"]
      [] type = "JOIN_TYPE_LEFT" -> [ok |-> TRUE, joinType |-> "kLeft"]
      [] type = "JOIN_TYPE_RIGHT" -> [ok |-> TRUE, joinType |-> "kRight"]
      [] type = "JOIN_TYPE_SEMI" -> [ok |-> TRUE, joinType |-> "kLeftSemi"]
      [] type = "JOIN_TYPE_ANTI" -> [ok |-> TRUE, joinType |-> "kAnti"]
      [] OTHER -> [ok |-> FALSE, joinType |-> "none"]

\* the field access a field reference becomes under a row type
toVeloxExprField(sField, inputType) ==
    [expr |-> "FieldAccess", field |-> sField.col,
     name |-> inputType.names[sField.col + 1],
     type |-> inputType.types[sField.col + 1]]

\* nextPlanNodeId: [id, conv]
nextPlanNodeId(conv) ==
    [id |-> conv.planNodeId, conv |-> [conv EXCEPT !.planNodeId = @ + 1]]

RECURSIVE toVeloxPlanRel(_, _)

\* the HashJoin node of a JoinRel whose children are converted
toVeloxPlanJoinOf(sJoin, left, right, outputRowType, keys, joinType, next) ==
    IF ~keys.ok THEN Threw(right.conv)
    ELSE IF Len(keys.leftExprs) # Len(keys.rightExprs) THEN Threw(right.conv)
    ELSE IF sJoin.hasPostJoinFilter
            /\ ~AnchorsResolve(right.conv.functionMap, sJoin.postJoinFilter)
    THEN Threw(right.conv)
    ELSE IF ~joinType.ok THEN Threw(right.conv)
    ELSE Returned(
            [kind |-> "HashJoin", id |-> next.id,
             joinType |-> joinType.joinType,
             leftKeys |-> [i \in DOMAIN keys.leftExprs |->
                             toVeloxExprField(keys.leftExprs[i], outputRowType)],
             rightKeys |-> [i \in DOMAIN keys.rightExprs |->
                             toVeloxExprField(keys.rightExprs[i], outputRowType)],
             filter |-> IF sJoin.hasPostJoinFilter
                        THEN toVeloxExpr(right.conv.functionMap,
                                         sJoin.postJoinFilter)
                        ELSE NullExpr,
             left |-> left.node, right |-> right.node,
             outputType |-> outputRowType],
            next.conv)

\* toVeloxPlan(JoinRel) from the conversion of the right child on
toVeloxPlanJoinRight(sJoin, left, right) ==
    IF ~right.ok THEN Threw(right.conv)
    ELSE toVeloxPlanJoinOf(sJoin, left, right,
            [names |-> left.node.outputType.names \o right.node.outputType.names,
             types |-> left.node.outputType.types \o right.node.outputType.types],
            extractJoinKeys(right.conv.functionMap, sJoin.expression),
            JoinTypeOf(sJoin.type),
            nextPlanNodeId(right.conv))

\* toVeloxPlan(JoinRel) from the conversion of the left child on
toVeloxPlanJoinLeft(sJoin, left) ==
    IF ~left.ok THEN Threw(left.conv)
    ELSE toVeloxPlanJoinRight(sJoin, left, toVeloxPlanRel(left.conv, sJoin.right))

\* toVeloxPlan(JoinRel)
toVeloxPlanJoin(conv, sJoin) ==
    IF ~sJoin.hasLeft \/ ~sJoin.hasRight THEN Threw(conv)
    ELSE toVeloxPlanJoinLeft(sJoin, toVeloxPlanRel(conv, sJoin.left))

\* toVeloxPlan(Rel)
toVeloxPlanRel(conv, sRel) ==
    IF sRel.kind = "join" THEN toVeloxPlanJoin(conv, sRel.join)
    ELSE IF sRel.kind = "read" THEN toVeloxPlanRead(conv, sRel.read)
    ELSE Threw(conv)

\* toVeloxPlan(RelRoot)
toVeloxPlanRoot(conv, sRoot) ==
    IF sRoot.hasInput THEN toVeloxPlanRel(conv, sRoot.input) ELSE Threw(conv)

\* constructFuncMap: the loop over the extensions of the plan
RECURSIVE constructFuncMapLoop(_, _, _)
constructFuncMapLoop(extensions, i, functionMap) ==
    IF i > Len(extensions) THEN functionMap
    ELSE LET sExtension == extensions[i] IN
         IF ~sExtension.hasExtensionFunction
         THEN constructFuncMapLoop(extensions, i + 1, functionMap)
         ELSE constructFuncMapLoop(extensions, i + 1,
                 [id \in (DOMAIN functionMap) \cup {sExtension.function_anchor} |->
                     IF id = sExtension.function_anchor THEN sExtension.name
                     ELSE functionMap[id]])

\* constructFuncMap: the entries of the plan are written into functionMap_
constructFuncMap(conv, sPlan) ==
    [conv EXCEPT !.functionMap = constructFuncMapLoop(sPlan.extensions, 1, @)]

\* the loop of toVeloxPlan(Plan) over the relations of the plan
RECURSIVE toVeloxPlanRelations(_, _, _)
toVeloxPlanRelations(conv, relations, i) ==
    IF i > Len(relations) THEN Threw(conv)
    ELSE LET sRel == relations[i] IN
         IF sRel.hasRoot THEN toVeloxPlanRoot(conv, sRel.root)
         ELSE IF sRel.hasRel THEN toVeloxPlanRel(conv, sRel.rel)
         ELSE toVeloxPlanRelations(conv, relations, i + 1)

\* toVeloxPlan(Plan) with the relation translated before the function map
\* is populated
toVeloxPlanRelationsFirst(conv, sPlan) ==
    Only({[r EXCEPT !.conv = constructFuncMap(r.conv, sPlan)] :
            r \in {toVeloxPlanRelations(conv, sPlan.relations, 1)}})

\* toVeloxPlan(Plan)
toVeloxPlan(conv, sPlan) ==
    toVeloxPlanRelations(constructFuncMap(conv, sPlan), sPlan.relations, 1)

----------------------------------------------------------------------------
(* The meaning of a typed expression on a row (a sequence of column        *)
(* values, Null for NULL), in SQL's three-valued logic: "T", "F", "N".     *)

ValueOf(e, row) ==
    IF e.expr = "FieldAccess" THEN row[e.field + 1]
    ELSE IF e.expr = "Constant" /\ ~e.isList THEN e.value
    ELSE Null

Compare(name, a, b) ==
    CASE name = "gte" -> a >= b
      [] name = "gt" -> a > b
      [] name = "lte" -> a <= b
      [] name = "lt" -> a < b
      [] name = "equal" -> a = b

Not3(a) == CASE a = "T" -> "F" [] a = "F" -> "T" [] OTHER -> "N"

RECURSIVE EvalTyped(_, _)
EvalTyped(e, row) ==
    IF e.expr # "Call" THEN "N"
    ELSE
    LET in == e.inputs
        vals == {EvalTyped(in[i], row) : i \in DOMAIN in}
    IN
    CASE e.name \in {"gte", "gt", "lte", "lt", "equal"} ->
            LET a == ValueOf(in[1], row)
                b == ValueOf(in[2], row)
            IN  IF a = Null \/ b = Null THEN "N"
                ELSE IF Compare(e.name, a, b) THEN "T" ELSE "F"
      [] e.name = "is_not_null" ->
            IF ValueOf(in[1], row) # Null THEN "T" ELSE "F"
      [] e.name = "is_null" ->
            IF ValueOf(in[1], row) = Null THEN "T" ELSE "F"
      [] e.name = "in" ->
            LET a == ValueOf(in[1], row) IN
            IF a = Null \/ in[2].expr # "Constant" THEN "N"
            ELSE IF ~in[2].isList THEN "N"
            ELSE IF a \in Range(in[2].values) THEN "T" ELSE "F"
      [] e.name = "and" ->
            IF "F" \in vals THEN "F" ELSE IF "N" \in vals THEN "N" ELSE "T"
      [] e.name = "or" ->
            IF "T" \in vals THEN "T" ELSE IF "N" \in vals THEN "N" ELSE "F"
      [] e.name = "not" -> Not3(EvalTyped(in[1], row))
      [] OTHER -> "N"

\* a row passes a scan with this table handle: every subfield filter
\* accepts its column and the remaining filter, if any, is true
RowPasses(handle, row) ==
    /\ \A c \in DOMAIN handle.subfieldFilters :
          TestFilter(handle.subfieldFilters[c], row[c + 1])
    /\ \/ handle.remainingFilter = NullExpr
       \/ EvalTyped(handle.remainingFilter, row) = "T"

----------------------------------------------------------------------------
(* The scans of the model: two columns, c0 of any kind and c1 a BIGINT,    *)
(* one file, and a filter from a bounded family.                           *)

Lits == 1 .. MaxLit
ColumnValues == 0 .. (MaxLit + 1)
Rows == {<<a, b>> : a \in ColumnValues \cup {Null}, b \in ColumnValues \cup {Null}}

ColumnKinds == FilterTypeKinds \cup {"BOOLEAN"}
Schemas == {<<k, "BIGINT">> : k \in ColumnKinds}

\* the type tag of the signatures of the functions over a column
SigOf(kind) ==
    CASE kind = "INTEGER" -> "i32"
      [] kind = "BIGINT" -> "i64"
      [] kind = "DOUBLE" -> "fp64"
      [] kind = "VARCHAR" -> "str"
      [] OTHER -> "bool"

CmpNames == {sGte, sGt, sLte, sLt, sEqual}

Fn(name, types, c, args) == ScalarFunction(Anchor(name, SigOf(types[c + 1])), args)
And(args) == ScalarFunction(Anchor("and", "bool"), args)
Or(args) == ScalarFunction(Anchor("or", "bool"), args)
Not(arg) == ScalarFunction(Anchor("not", "bool"), <<arg>>)

\* comparisons of column c with a literal, the field first
CmpLeaves(types, c) ==
    {Fn(name, types, c, <<Sel(c), Lit(v)>>) : name \in CmpNames, v \in Lits}
\* the same with the literal first
CommutedLeaves(types, c) ==
    {Fn(name, types, c, <<Lit(v), Sel(c)>>) : name \in CmpNames, v \in Lits}
IsNotNullLeaf(types, c) == Fn(sIsNotNull, types, c, <<Sel(c)>>)
IsNullLeaf(types, c) == Fn("is_null", types, c, <<Sel(c)>>)
InLists == {<<>>, <<1>>, <<1, MaxLit>>}
InLeaves(types, c) == {Fn(sIn, types, c, <<Sel(c), ListLit(vs)>>) : vs \in InLists}
\* 'in' leaves whose second argument is no literal list
BadInLeaves(types, c) ==
    {Fn(sIn, types, c, <<Sel(c), Lit(1)>>), Fn(sIn, types, c, <<Sel(c), Sel(1 - c)>>)}
NotLeaves(types, c) ==
    {Not(x) : x \in CmpLeaves(types, c) \cup {IsNotNullLeaf(types, c)}}
OrChildren(types, c) ==
    CmpLeaves(types, c)
      \cup {IsNotNullLeaf(types, c), Fn(sIn, types, c, <<Sel(c), ListLit(<<1>>)>>)}
OrLeaves(types) ==
    {Or(<<x, y>>) : x \in OrChildren(types, 0),
                    y \in OrChildren(types, 0)
                            \cup {Fn(sEqual, types, 1, <<Sel(1), Lit(1)>>)}}

\* the leaves on the second column
OtherColumnLeaves(types) ==
    {Fn(sGte, types, 1, <<Sel(1), Lit(1)>>),
     Fn(sEqual, types, 1, <<Sel(1), Lit(1)>>),
     IsNotNullLeaf(types, 1),
     Fn(sIn, types, 1, <<Sel(1), ListLit(<<1>>)>>),
     Not(Fn(sEqual, types, 1, <<Sel(1), Lit(1)>>))}

\* the leaves of two-leaf conjunctions
PairLeaves(types) ==
    CmpLeaves(types, 0) \cup InLeaves(types, 0) \cup BadInLeaves(types, 0)
      \cup {IsNotNullLeaf(types, 0), IsNullLeaf(types, 0)}
      \cup NotLeaves(types, 0) \cup OtherColumnLeaves(types)
      \cup {Or(<<Fn(sEqual, types, 0, <<Sel(0), Lit(1)>>),
                 Fn(sEqual, types, 0, <<Sel(0), Lit(MaxLit)>>)>>),
            Or(<<IsNotNullLeaf(types, 0), IsNotNullLeaf(types, 0)>>)}

\* every leaf of the model
Leaves(types) ==
    PairLeaves(types) \cup CommutedLeaves(types, 0) \cup OrLeaves(types)

\* the leaves of three-leaf conjunctions
TripleLeaves(types) ==
    {Fn(sGte, types, 0, <<Sel(0), Lit(1)>>),
     Fn(sLt, types, 0, <<Sel(0), Lit(MaxLit)>>),
     IsNotNullLeaf(types, 0),
     IsNullLeaf(types, 0),
     Fn(sIn, types, 0, <<Sel(0), ListLit(<<1, MaxLit>>)>>),
     Not(Fn(sEqual, types, 0, <<Sel(0), Lit(1)>>)),
     Not(Fn(sEqual, types, 0, <<Sel(0), Lit(MaxLit)>>)),
     Fn(sEqual, types, 1, <<Sel(1), Lit(1)>>),
     IsNotNullLeaf(types, 1)}

\* conjuncts that are no scalar function: a boolean literal, a bare field
NonFunctionConjuncts == {Lit(1), Sel(0)}

\* one entry of local_files
File(uri, format) ==
    [uri_file |-> uri, format |-> format,
     partition_index |-> 0, start |-> 0, length |-> 1]

\* a ReadRel over local files
ReadRel(files, types, hasFilter, filter) ==
    [hasLocalFiles |-> TRUE, files |-> files,
     hasBaseSchema |-> TRUE, types |-> types,
     hasFilter |-> hasFilter, filter |-> filter,
     hasVirtualTable |-> FALSE, virtualTable |-> <<>>]

\* the format codes of the scans: PARQUET and DWRF
ScanFormats == {1, 2}
DataFile == <<"/", "f">>

----------------------------------------------------------------------------
(* The state machine.                                                      *)

\* the converter, as the record the conversions take
Conv ==
    [planNodeId |-> planNodeId_, splitInfoMap |-> splitInfoMap_,
     functionMap |-> functionMap_, inputNodesMap |-> inputNodesMap_,
     validationMode |-> validationMode_]

NoSplitInfos == [id \in {} |-> NewSplitInfo]
NoInputNodes == [idx \in {} |-> [kind |-> "none", id |-> 0]]

Pending == [done |-> FALSE]

\* the pending conversion of a scan of one data file with a filter
ScanCall(types, format, filter) ==
    [op |-> "ReadRel",
     sRead |-> ReadRel(<<File(DataFile, format)>>, types, TRUE, filter)]

\* SpecScan: a converter whose function map holds every function, about to
\* convert one ReadRel of the family
InitScan ==
    /\ planNodeId_ = 0
    /\ splitInfoMap_ = NoSplitInfos
    /\ functionMap_ = AllExtensionFunctions
    /\ inputNodesMap_ = NoInputNodes
    /\ validationMode_ = FALSE
    /\ \E types \in Schemas, format \in ScanFormats :
          \/ \E x \in Leaves(types) : call = ScanCall(types, format, x)
          \/ \E x \in PairLeaves(types), y \in PairLeaves(types) :
                call = ScanCall(types, format, And(<<x, y>>))
          \/ \E x \in TripleLeaves(types), y \in TripleLeaves(types),
                z \in TripleLeaves(types) :
                \/ call = ScanCall(types, format, And(<<x, y, z>>))
                \/ call = ScanCall(types, format, And(<<And(<<x, y>>), z>>))
                \/ call = ScanCall(types, format, And(<<x, And(<<y, z>>)>>))
          \/ \E x \in NonFunctionConjuncts :
                \/ call = ScanCall(types, format, x)
                \/ \E y \in TripleLeaves(types) :
                      call = ScanCall(types, format, And(<<y, x>>))
    /\ ret = Pending

\* the call of toVeloxPlan(ReadRel) that is pending
ConvertReadRel ==
    /\ call.op = "ReadRel"
    /\ ~ret.done
    /\ \E r \in {toVeloxPlanRead(Conv, call.sRead)} :
       /\ ret' = [done |-> TRUE, ok |-> r.ok, node |-> r.node]
       /\ planNodeId_' = r.conv.planNodeId
       /\ splitInfoMap_' = r.conv.splitInfoMap
    /\ UNCHANGED <<functionMap_, inputNodesMap_, validationMode_, call>>

NextScan == ConvertReadRel

SpecScan == InitScan /\ [][NextScan]_vars


----------------------------------------------------------------------------
(* SpecJoin: the conversion of one JoinRel of two scans.                   *)

\* the number of columns of each side of the joins
JoinColumns == 3

\* the scan of one side of a join
JoinSide(name) ==
    [kind |-> "read",
     read |-> ReadRel(<<File(<<"/", name>>, 2)>>,
                      [i \in 1 .. JoinColumns |-> "BIGINT"], FALSE, Lit(1))]

\* eq(L.i, R.i) under the row type of the join
EqLeaf(i) == ScalarFunction(Anchor("eq", "i64"), <<Sel(i), Sel(JoinColumns + i)>>)
EqLeaves == {EqLeaf(i) : i \in 0 .. (JoinColumns - 1)}

\* conjuncts that are no eq of two fields
NonKeyLeaves ==
    {ScalarFunction(Anchor("eq", "i64"), <<Sel(0), Lit(1)>>),
     ScalarFunction(Anchor(sGt, "i64"), <<Sel(0), Sel(JoinColumns)>>),
     Lit(1)}

JoinLeaves == EqLeaves \cup NonKeyLeaves

JoinTypes == {"JOIN_TYPE_INNER", "JOIN_TYPE_LEFT", "JOIN_TYPE_UNSPECIFIED"}

JoinRel(hasLeft, expression, type, hasPostJoinFilter) ==
    [hasLeft |-> hasLeft, left |-> JoinSide("l"),
     hasRight |-> TRUE, right |-> JoinSide("r"),
     expression |-> expression, type |-> type,
     hasPostJoinFilter |-> hasPostJoinFilter,
     postJoinFilter |-> ScalarFunction(Anchor(sGt, "i64"), <<Sel(0), Sel(JoinColumns)>>)]

JoinCall(expression, type) ==
    [op |-> "JoinRel", sJoin |-> JoinRel(TRUE, expression, type, FALSE)]

InitJoin ==
    /\ planNodeId_ = 0
    /\ splitInfoMap_ = NoSplitInfos
    /\ functionMap_ = AllExtensionFunctions
    /\ inputNodesMap_ = NoInputNodes
    /\ validationMode_ = FALSE
    /\ \/ \E type \in JoinTypes :
          \/ \E x \in JoinLeaves : call = JoinCall(x, type)
          \/ \E x \in JoinLeaves, y \in JoinLeaves :
                call = JoinCall(And(<<x, y>>), type)
          \/ \E x \in JoinLeaves, y \in JoinLeaves, z \in JoinLeaves :
                \/ call = JoinCall(And(<<x, y, z>>), type)
                \/ call = JoinCall(And(<<And(<<x, y>>), z>>), type)
                \/ call = JoinCall(And(<<x, And(<<y, z>>)>>), type)
       \/ \E hasLeft \in BOOLEAN, x \in EqLeaves :
             call = [op |-> "JoinRel",
                     sJoin |-> JoinRel(hasLeft, x, "JOIN_TYPE_INNER", TRUE)]
    /\ ret = Pending

\* the call of toVeloxPlan(JoinRel) that is pending
ConvertJoinRel ==
    /\ call.op = "JoinRel"
    /\ ~ret.done
    /\ \E r \in {toVeloxPlanJoin(Conv, call.sJoin)} :
       /\ ret' = [done |-> TRUE, ok |-> r.ok, node |-> r.node]
       /\ planNodeId_' = r.conv.planNodeId
       /\ splitInfoMap_' = r.conv.splitInfoMap
    /\ UNCHANGED <<functionMap_, inputNodesMap_, validationMode_, call>>

NextJoin == ConvertJoinRel

SpecJoin == InitJoin /\ [][NextJoin]_vars

----------------------------------------------------------------------------
(* SpecConv: one converter used for a sequence of calls: input nodes are   *)
(* registered, ReadRels and plans are converted.  call is the last call,   *)
(* with the converter as it was before the call in call.pre.               *)

\* the calls stop when the node id counter has reached this value
MaxPlanNodeId == 2
\* the input nodes are registered at the indexes 0 .. MaxStreamIndex
MaxStreamIndex == 1

NoFunctions == [a \in {} |-> NameSpec("and", "bool")]

\* the types of the columns of the scans
ConvTypes == <<"BIGINT", "BIGINT">>

\* the node registered at an index of the input nodes map
InputNode(idx) ==
    [kind |-> "InputStream", id |-> InputNodeId(idx),
     outputType |-> [names |-> [i \in DOMAIN ConvTypes |->
                                  makeNodeName(InputNodeId(idx), i - 1)],
                     types |-> ConvTypes]]

\* the URIs of the first file of a ReadRel
FileUris ==
    {DataFile,
     <<kIteratorPrefix, "0">>, <<kIteratorPrefix, "1">>,
     <<kIteratorPrefix, "1", "0">>,
     <<"/", kIteratorPrefix, "0">>,
     <<kIteratorPrefix, "-", "1">>,
     <<kIteratorPrefix, "0", "x">>,
     <<kIteratorPrefix, "x">>,
     <<kIteratorPrefix>>}

\* the field counts of the values entries of the virtual tables
FieldCounts == {0, 2, 3, 4}

\* a values entry of n literal fields
ValuesEntry(n) == [k \in 1 .. n |-> Lit(k)]

\* the virtual tables: one or two values entries
VirtualTables ==
    {<<ValuesEntry(n)>> : n \in FieldCounts}
      \cup {<<ValuesEntry(n), ValuesEntry(m)>> : n \in FieldCounts, m \in FieldCounts}

\* a ReadRel of a virtual table: read_type is a oneof, so that it has no
\* local files
VirtualReadRel(types, values) ==
    [ReadRel(<<>>, types, FALSE, Lit(1)) EXCEPT
        !.hasLocalFiles = FALSE, !.hasVirtualTable = TRUE, !.virtualTable = values]

\* the ReadRels converted on their own: without a filter
ConvReadRels ==
    {ReadRel(<<File(uri, 2)>>, ConvTypes, FALSE, Lit(1)) : uri \in FileUris}
      \cup {ReadRel(<<>>, ConvTypes, FALSE, Lit(1)),
            [ReadRel(<<>>, ConvTypes, FALSE, Lit(1)) EXCEPT !.hasLocalFiles = FALSE]}
      \cup {VirtualReadRel(types, values) :
               types \in {ConvTypes, <<"BIGINT">>}, values \in VirtualTables}

\* one extension of a plan that declares a function
ExtensionFunction(name, sig) ==
    [hasExtensionFunction |-> TRUE,
     function_anchor |-> Anchor(name, sig), name |-> NameSpec(name, sig)]

\* an extension of a plan that declares no function
ExtensionType ==
    [hasExtensionFunction |-> FALSE,
     function_anchor |-> 0, name |-> NameSpec("and", "bool")]

\* the extensions of the plans
PlanExtensions ==
    {<<ExtensionFunction(sGte, "i64"), ExtensionType, ExtensionFunction("eq", "i64")>>,
     <<ExtensionFunction(sLt, "i64")>>,
     <<>>}

FilteredScan(filter) ==
    [kind |-> "read",
     read |-> ReadRel(<<File(DataFile, 2)>>, ConvTypes, TRUE, filter)]

UnfilteredScan(uri) ==
    [kind |-> "read",
     read |-> ReadRel(<<File(uri, 2)>>, ConvTypes, FALSE, Lit(1))]

\* the relations the plans are made of
PlanRels ==
    {FilteredScan(ScalarFunction(Anchor(sGte, "i64"), <<Sel(0), Lit(1)>>)),
     FilteredScan(ScalarFunction(Anchor(sLt, "i64"), <<Sel(0), Lit(MaxLit)>>)),
     UnfilteredScan(DataFile),
     [kind |-> "join",
      join |-> [hasLeft |-> TRUE, left |-> UnfilteredScan(DataFile),
                hasRight |-> TRUE, right |-> UnfilteredScan(<<kIteratorPrefix, "0">>),
                expression |-> ScalarFunction(Anchor("eq", "i64"), <<Sel(0), Sel(2)>>),
                type |-> "JOIN_TYPE_INNER",
                hasPostJoinFilter |-> FALSE, postJoinFilter |-> Lit(1)]],
     [kind |-> "none"]}

\* one entry of the relations of a plan
PlanRel(hasRoot, hasInput, hasRel, sRel) ==
    [hasRoot |-> hasRoot, root |-> [hasInput |-> hasInput, input |-> sRel],
     hasRel |-> hasRel, rel |-> sRel]

Plans ==
    {[extensions |-> e, relations |-> r] :
        e \in PlanExtensions,
        r \in {<<PlanRel(TRUE, TRUE, FALSE, x)>> : x \in PlanRels}
              \cup {<<PlanRel(FALSE, FALSE, FALSE, x), PlanRel(FALSE, FALSE, TRUE, x)>> :
                       x \in PlanRels}
              \cup {<<PlanRel(FALSE, FALSE, TRUE, x),
                       PlanRel(TRUE, TRUE, FALSE, UnfilteredScan(DataFile))>> :
                       x \in PlanRels}
              \cup {<<>>, <<PlanRel(TRUE, FALSE, FALSE, [kind |-> "none"])>>}}

InitConv ==
    /\ planNodeId_ = 0
    /\ splitInfoMap_ = NoSplitInfos
    /\ functionMap_ = NoFunctions
    /\ inputNodesMap_ = NoInputNodes
    /\ validationMode_ \in BOOLEAN
    /\ call = [op |-> "new"]
    /\ ret = [done |-> TRUE, ok |-> TRUE, node |-> [kind |-> "none"]]

\* an input node is registered at an index
InsertInputNode ==
    \E idx \in 0 .. MaxStreamIndex :
       /\ idx \notin DOMAIN inputNodesMap_
       /\ inputNodesMap_' =
             [i \in (DOMAIN inputNodesMap_) \cup {idx} |->
                 IF i = idx THEN InputNode(idx) ELSE inputNodesMap_[i]]
       /\ call' = [op |-> "insertInputNode", idx |-> idx, pre |-> Conv]
       /\ ret' = [done |-> TRUE, ok |-> TRUE, node |-> InputNode(idx)]
       /\ UNCHANGED <<planNodeId_, splitInfoMap_, functionMap_, validationMode_>>

\* toVeloxPlan(ReadRel) is called
CallReadRel ==
    \E sRead \in ConvReadRels :
       /\ planNodeId_ < MaxPlanNodeId
       /\ \E r \in {toVeloxPlanRead(Conv, sRead)} :
          /\ ret' = [done |-> TRUE, ok |-> r.ok, node |-> r.node]
          /\ planNodeId_' = r.conv.planNodeId
          /\ splitInfoMap_' = r.conv.splitInfoMap
       /\ call' = [op |-> "ReadRel", sRead |-> sRead, pre |-> Conv]
       /\ UNCHANGED <<functionMap_, inputNodesMap_, validationMode_>>

\* toVeloxPlan(Plan) is called
CallPlan ==
    \E sPlan \in Plans :
       /\ planNodeId_ < MaxPlanNodeId
       /\ \E r \in {toVeloxPlan(Conv, sPlan)} :
          /\ ret' = [done |-> TRUE, ok |-> r.ok, node |-> r.node]
          /\ planNodeId_' = r.conv.planNodeId
          /\ splitInfoMap_' = r.conv.splitInfoMap
          /\ functionMap_' = r.conv.functionMap
       /\ call' = [op |-> "Plan", sPlan |-> sPlan, pre |-> Conv]
       /\ UNCHANGED <<inputNodesMap_, validationMode_>>

NextConv == InsertInputNode \/ CallReadRel \/ CallPlan

SpecConv == InitConv /\ [][NextConv]_vars
----------------------------------------------------------------------------
(* What the properties below read off a state of SpecScan.                 *)

ScanDone == call.op = "ReadRel" /\ ret.done
\* the conversion returned a table scan
ScanEmitted == ScanDone /\ ret.ok /\ ret.node.kind = "TableScan"
ScanFilter == call.sRead.filter
ScanTypes == call.sRead.types
ScanFormat == FileFormatOf(call.sRead.files[Len(call.sRead.files)].format)
Handle == ret.node.tableHandle
\* the stages of the analysis of the filter of the call
ScanFlat == flattenConditions(functionMap_, ScanFilter)
ScanSep == separateFilters(functionMap_, ScanFlat.fns)
ScanAcc == colInfoMapOf(functionMap_, ScanTypes, ScanSep.sub)
ScanProduced == toSubfieldFilters(functionMap_, ScanTypes, ScanSep.sub)

\* the conjuncts of a typed expression, left to right
RECURSIVE Conjuncts(_)
Conjuncts(e) ==
    IF e = NullExpr THEN <<>>
    ELSE IF e.expr = "Call" /\ e.name = "and"
    THEN Conjuncts(e.inputs[1]) \o Conjuncts(e.inputs[2])
    ELSE <<e>>

\* the names of the leaves the filter analysis is specified for
AnalyzedNames == {sGte, sGt, sLte, sLt, sEqual, sIn, sIsNotNull, sNot, sOr}

\* a subfield filter of a kind PARQUET does not support was produced
VetoCase ==
    /\ ScanFormat = "PARQUET"
    /\ ScanProduced.ok
    /\ \E c \in DOMAIN ScanProduced.filters :
          ScanProduced.filters[c].kind \notin
             {"BigintRange", "DoubleRange", "BytesValues", "BytesRange",
              "BigintValuesUsingBitmask", "BigintValuesUsingHashTable"}

----------------------------------------------------------------------------
(* Properties of the scan conversion.                                      *)

\* C1 (as claimed): partition soundness.  For a filter whose flattened
\* leaves are gte/gt/lte/lt/equal/in/is_not_null/not/or calls, a row passes
\* the emitted subfield filters and the remaining filter iff it satisfies
\* the filter.
C1_PartitionSoundness ==
    ( /\ ScanEmitted
      /\ \A i \in DOMAIN ScanFlat.fns :
            FuncNameOf(functionMap_, ScanFlat.fns[i]) \in AnalyzedNames )
    => \A row \in Rows :
          RowPasses(Handle, row)
            <=> (EvalTyped(toVeloxExpr(functionMap_, ScanFilter), row) = "T")

\* C2: when a produced subfield filter is of a kind the format does not
\* support, the emitted map is empty and the remaining filter is the AND of
\* all flattened leaves of the filter, in their order.
C2_VetoIsAllOrNothing ==
    (ScanEmitted /\ VetoCase)
    => /\ DOMAIN Handle.subfieldFilters = {}
       /\ Conjuncts(Handle.remainingFilter) =
             [i \in DOMAIN ScanFlat.fns |->
                toVeloxExpr(functionMap_, ScanFlat.fns[i])]

\* C2 witness: a vetoed scan with pushdown candidates and residual leaves
C2_Witness ==
    /\ ScanEmitted /\ VetoCase
    /\ Len(ScanSep.sub) > 0 /\ Len(ScanSep.rem) > 0
    /\ Len(Conjuncts(Handle.remainingFilter)) = Len(ScanFlat.fns)

\* C3: every filter of an emitted map is of a kind the format of the scan
\* supports: for PARQUET the six kinds, for every other format any kind.
C3_FormatRespect ==
    ScanEmitted
    => \A c \in DOMAIN Handle.subfieldFilters :
          splitInfoMap_[ret.node.id].format = "PARQUET"
          => Handle.subfieldFilters[c].kind \in
                {"BigintRange", "DoubleRange", "BytesValues", "BytesRange",
                 "BigintValuesUsingBitmask", "BigintValuesUsingHashTable"}

\* C3 witness: a PARQUET scan with a filter pushed down
C3_Witness ==
    /\ ScanEmitted
    /\ splitInfoMap_[ret.node.id].format = "PARQUET"
    /\ DOMAIN Handle.subfieldFilters # {}

\* C4: a column whose FilterInfo holds IN values carries, in an emitted map,
\* the values primitive and nothing else.
C4_InExclusivity ==
    ScanEmitted
    => \A c \in DOMAIN Handle.subfieldFilters :
          ScanAcc.map[c].valuesVector # <<>>
          => /\ Handle.subfieldFilters[c].kind \in ValuesKinds
             /\ Handle.subfieldFilters[c].values = ScanAcc.map[c].valuesVector

\* C4 witness: an emitted values primitive on a column that also has an
\* is_not_null leaf
C4_Witness ==
    /\ ScanEmitted
    /\ \E c \in DOMAIN Handle.subfieldFilters :
          /\ ScanAcc.map[c].valuesVector # <<>>
          /\ ~ScanAcc.map[c].nullAllowed
          /\ Handle.subfieldFilters[c].kind \in ValuesKinds

\* an 'in' leaf whose first argument is a field and whose second argument is
\* no literal list
IsBadIn(leaf) ==
    /\ FuncNameOf(functionMap_, leaf) = sIn
    /\ Len(leaf.args) = 2
    /\ has_selection(leaf.args[1])
    /\ ~(has_literal(leaf.args[2]) /\ leaf.args[2].isList)

\* C5 (as claimed): ineligible leaves are residuals and raise no error; a
\* filter made of scalar functions is separated without an error, every
\* leaf going to one of the two lists, an 'in' leaf over a field and
\* something that is no literal list to the residuals.
C5_IneligibleIsNonFatal ==
    (ScanDone /\ ScanFlat.ok)
    => /\ ScanSep.ok
       /\ Len(ScanSep.sub) + Len(ScanSep.rem) = Len(ScanFlat.fns)
       /\ \A i \in DOMAIN ScanFlat.fns :
             IsBadIn(ScanFlat.fns[i])
             => \E j \in DOMAIN ScanSep.rem : ScanSep.rem[j] = ScanFlat.fns[i]


----------------------------------------------------------------------------
(* Properties of the join conversion (SpecJoin).                           *)

JoinDone == call.op = "JoinRel" /\ ret.done
\* the conversion returned a hash join
JoinReturned == JoinDone /\ ret.ok /\ ret.node.kind = "HashJoin"

IsAndCall(e) ==
    has_scalar_function(e) /\ FuncNameOf(functionMap_, e) = "and"
IsEqOfFields(e) ==
    /\ has_scalar_function(e) /\ FuncNameOf(functionMap_, e) = "eq"
    /\ Len(e.args) = 2
    /\ has_selection(e.args[1]) /\ has_selection(e.args[2])

\* the conjuncts of an ON-expression in their textual order: the leaves
\* under all the arguments of its 'and' calls
RECURSIVE AllConjuncts(_)
RECURSIVE AllConjunctsFrom(_, _)
AllConjuncts(e) ==
    IF IsAndCall(e) THEN AllConjunctsFrom(e.args, 1) ELSE <<e>>
AllConjunctsFrom(args, i) ==
    IF i > Len(args) THEN <<>>
    ELSE AllConjuncts(args[i]) \o AllConjunctsFrom(args, i + 1)

\* the conjuncts under the first two arguments of the 'and' calls, in
\* their textual order
RECURSIVE FirstTwoConjuncts(_)
FirstTwoConjuncts(e) ==
    IF IsAndCall(e)
    THEN FirstTwoConjuncts(e.args[1]) \o FirstTwoConjuncts(e.args[2])
    ELSE <<e>>

Reverse(s) == [i \in DOMAIN s |-> s[Len(s) + 1 - i]]

\* the (left, right) columns of an eq leaf and of the keys of the join node
KeyPairOf(leaf) == <<leaf.args[1].col, leaf.args[2].col>>
KeyPairsOf(leaves) == [i \in DOMAIN leaves |-> KeyPairOf(leaves[i])]
NodeKeyPairs ==
    [i \in DOMAIN ret.node.leftKeys |->
        <<ret.node.leftKeys[i].field, ret.node.rightKeys[i].field>>]

\* C6 (as claimed): the key pairs of the join are those of the eq leaves of
\* the ON-expression in their left-to-right textual order.
C6_KeysInDeclaredOrder ==
    JoinReturned
    => NodeKeyPairs =
          KeyPairsOf(SelectSeq(AllConjuncts(call.sJoin.expression), IsEqOfFields))

\* C6 (amended): the key pairs of the join are those of the eq leaves
\* reached through the first two arguments of the 'and' calls, in the
\* reverse of their textual order: right to left.
C6_KeysInReverseOrder ==
    JoinReturned
    => /\ NodeKeyPairs =
             Reverse(KeyPairsOf(FirstTwoConjuncts(call.sJoin.expression)))
       /\ ret.node.filter = NullExpr \/ call.sJoin.hasPostJoinFilter

\* C6 witness: and(eq a, and(eq b, eq c)) converted: the keys are c, b, a
C6_Witness ==
    /\ JoinReturned
    /\ call.sJoin.expression =
          And(<<EqLeaf(0), And(<<EqLeaf(1), EqLeaf(JoinColumns - 1)>>)>>)
    /\ NodeKeyPairs =
          <<KeyPairOf(EqLeaf(JoinColumns - 1)), KeyPairOf(EqLeaf(1)),
            KeyPairOf(EqLeaf(0))>>
    /\ ret.node.filter = NullExpr

\* C7 (as claimed): no conjunct is lost; a join is returned only when every
\* conjunct under every argument of every 'and' is an eq of two fields, and
\* then each of them has contributed one key pair.
C7_NoConjunctLost ==
    JoinReturned
    => LET leaves == AllConjuncts(call.sJoin.expression) IN
       /\ \A i \in DOMAIN leaves : IsEqOfFields(leaves[i])
       /\ Len(ret.node.leftKeys) = Len(leaves)
       /\ Len(ret.node.rightKeys) = Len(leaves)

----------------------------------------------------------------------------
(* Properties of a converter in use (SpecConv).                            *)

ReadRelDone == call.op = "ReadRel" /\ ret.done
\* the URI of the first file of the ReadRel of the call
FirstUri == call.sRead.files[1].uri_file
HasFirstUri == call.sRead.hasLocalFiles /\ Len(call.sRead.files) > 0

\* the number a sequence of digits writes
RECURSIVE DecimalValue(_)
DecimalValue(digits) ==
    IF digits = <<>> THEN 0
    ELSE 10 * DecimalValue(SubSeq(digits, 1, Len(digits) - 1))
           + DigitValue(digits[Len(digits)])

\* the URI is iterator:<N> for a non-negative integer N
IsIteratorUri(uri) ==
    /\ Len(uri) >= 2
    /\ uri[1] = kIteratorPrefix
    /\ \A i \in 2 .. Len(uri) : IsDigit(uri[i])
IteratorIndex(uri) == DecimalValue(Tail(uri))

\* C8: stream substitution.  A ReadRel whose first URI is iterator:<N>
\* returns the input node registered at N, no TableScan, takes no node id
\* and records a split info with isStream under the id of the input node;
\* without an input node at N the conversion fails.
C8_StreamSubstitution ==
    (ReadRelDone /\ HasFirstUri /\ IsIteratorUri(FirstUri))
    => LET N == IteratorIndex(FirstUri) IN
       IF N \in DOMAIN call.pre.inputNodesMap
       THEN /\ ret.ok
            /\ ret.node = call.pre.inputNodesMap[N]
            /\ ret.node.kind # "TableScan"
            /\ planNodeId_ = call.pre.planNodeId
            /\ DOMAIN splitInfoMap_ = DOMAIN call.pre.splitInfoMap \cup {ret.node.id}
            /\ splitInfoMap_[ret.node.id].isStream
       ELSE ~ret.ok

\* C8 witness: a stream substituted after a scan has taken a node id
C8_Witness ==
    /\ ReadRelDone /\ HasFirstUri /\ IsIteratorUri(FirstUri)
    /\ ret.ok
    /\ ret.node = InputNode(IteratorIndex(FirstUri))
    /\ planNodeId_ > 0
    /\ splitInfoMap_[ret.node.id].isStream

\* C9 (as claimed): a first URI that does not begin with iterator: is a
\* data file, scanned with isStream false; one that begins with iterator:
\* and goes on with something other than a non-negative integer is rejected.
C9_OnlyIteratorPrefixIsStream ==
    (ReadRelDone /\ HasFirstUri)
    => /\ FirstUri[1] # kIteratorPrefix
          => /\ ret.ok
             /\ ret.node.kind = "TableScan"
             /\ ~splitInfoMap_[ret.node.id].isStream
       /\ (FirstUri[1] = kIteratorPrefix /\ ~IsIteratorUri(FirstUri))
          => ~ret.ok

PlanDone == call.op = "Plan" /\ ret.done

\* the anchor->name pairs of the extension_function entries of a plan
PlanFunctionEntries(sPlan) ==
    {i \in DOMAIN sPlan.extensions : sPlan.extensions[i].hasExtensionFunction}
PlanFunctions(sPlan) ==
    [a \in {sPlan.extensions[i].function_anchor : i \in PlanFunctionEntries(sPlan)} |->
        LET last == CHOOSE i \in PlanFunctionEntries(sPlan) :
                       /\ sPlan.extensions[i].function_anchor = a
                       /\ \A j \in PlanFunctionEntries(sPlan) :
                             sPlan.extensions[j].function_anchor = a => j <= i
        IN  sPlan.extensions[last].name]

\* the filter of the scan a plan consists of uses an anchor the plan does
\* not declare
PlanUsesUndeclared(sPlan) ==
    /\ Len(sPlan.relations) = 1
    /\ sPlan.relations[1].hasRoot /\ sPlan.relations[1].root.hasInput
    /\ sPlan.relations[1].root.input.kind = "read"
    /\ sPlan.relations[1].root.input.read.hasFilter
    /\ ~AnchorsResolve(PlanFunctions(sPlan),
                       sPlan.relations[1].root.input.read.filter)

\* C10 (as claimed): after toVeloxPlan(Plan) the function map holds exactly
\* the pairs the plan declares, and a plan that uses an anchor it does not
\* declare is not converted, whatever the plans converted before declared.
C10_FunctionMapOfOnePlan ==
    PlanDone
    => /\ functionMap_ = PlanFunctions(call.sPlan)
       /\ PlanUsesUndeclared(call.sPlan) => ~ret.ok

----------------------------------------------------------------------------
(* Failed conversions.                                                     *)

\* toVeloxPlan(Plan) raised an error
PlanFailed == PlanDone /\ ~ret.ok

\* C11 (as claimed): a toVeloxPlan(Plan) that raises an error leaves the
\* plan node id counter, the split info map and the function map as they
\* were before the call.
C11_FailedConversionLeavesNoSideEffects ==
    PlanFailed
    => /\ planNodeId_ = call.pre.planNodeId
       /\ splitInfoMap_ = call.pre.splitInfoMap
       /\ functionMap_ = call.pre.functionMap

----------------------------------------------------------------------------
(* The order of the translation of a plan.                                 *)

\* the function map once the entries of a plan are written over a map
MapWithPlanFunctions(functionMap, sPlan) ==
    [a \in (DOMAIN functionMap) \cup (DOMAIN PlanFunctions(sPlan)) |->
        IF a \in DOMAIN PlanFunctions(sPlan) THEN PlanFunctions(sPlan)[a]
        ELSE functionMap[a]]

\* the relations of a plan that carry a RelRoot or a Rel
CarryingRelations(sPlan) ==
    {i \in DOMAIN sPlan.relations :
        sPlan.relations[i].hasRoot \/ sPlan.relations[i].hasRel}

FirstCarrying(sPlan) ==
    CHOOSE i \in CarryingRelations(sPlan) :
        \A j \in CarryingRelations(sPlan) : i <= j

\* the translation of one relation of a plan by a converter
TranslationOf(conv, sRel) ==
    IF sRel.hasRoot THEN toVeloxPlanRoot(conv, sRel.root)
    ELSE toVeloxPlanRel(conv, sRel.rel)

\* C12: toVeloxPlan(Plan) writes every extension_function entry of the plan
\* into the function map before any relation is translated, then translates
\* exactly the first relation that carries a RelRoot or a Rel, under that
\* function map, and returns its node; a plan without such a relation fails.
C12_PlanTranslationOrder ==
    PlanDone
    => /\ functionMap_ = MapWithPlanFunctions(call.pre.functionMap, call.sPlan)
       /\ CarryingRelations(call.sPlan) = {} => ~ret.ok
       /\ CarryingRelations(call.sPlan) # {}
          => \E r \in {TranslationOf(
                         [call.pre EXCEPT !.functionMap =
                            MapWithPlanFunctions(@, call.sPlan)],
                         call.sPlan.relations[FirstCarrying(call.sPlan)])} :
                /\ ret.ok = r.ok
                /\ ret.node = r.node
                /\ planNodeId_ = r.conv.planNodeId
                /\ splitInfoMap_ = r.conv.splitInfoMap

\* a plan of two relations that both carry one, whose first is a scan with
\* a filter of a function that only this plan declares, was converted
C12_Witness ==
    /\ PlanDone
    /\ ret.ok
    /\ Len(call.sPlan.relations) = 2
    /\ CarryingRelations(call.sPlan) = {1, 2}
    /\ call.sPlan.relations[1].rel.kind = "read"
    /\ call.sPlan.relations[1].rel.read.hasFilter
    /\ ~AnchorsResolve(call.pre.functionMap,
                       call.sPlan.relations[1].rel.read.filter)
    /\ ret.node.kind = "TableScan"
    /\ planNodeId_ = call.pre.planNodeId + 1

----------------------------------------------------------------------------
(* The leaves of the filter of a scan.                                     *)

\* the filter of the scan is a call of 'and'
FilterIsAnd ==
    has_scalar_function(ScanFilter) /\ FuncNameOf(functionMap_, ScanFilter) = "and"

\* the conjuncts of the filter of the scan that are no scalar function
\* call: the whole filter, or arguments of its 'and'
NonScalarConjuncts ==
    IF FilterIsAnd
    THEN {ScanFilter.args[i] : i \in {j \in DOMAIN ScanFilter.args :
                                        ~has_scalar_function(ScanFilter.args[j])}}
    ELSE IF has_scalar_function(ScanFilter) THEN {} ELSE {ScanFilter}

\* C13 (as claimed): a conjunct of the filter that is no scalar function
\* call is not rejected: the conversion of the scan succeeds and the
\* conjunct is among the conjuncts of the remaining filter, as it is.
C13_NonScalarLeavesBecomeResiduals ==
    (ScanDone /\ NonScalarConjuncts # {})
    => /\ ScanEmitted
       /\ \A x \in NonScalarConjuncts :
             \E i \in DOMAIN Conjuncts(Handle.remainingFilter) :
                Conjuncts(Handle.remainingFilter)[i] = toVeloxExpr(functionMap_, x)


\* an expression is a call of 'and'
IsAndOf(fm, e) == has_scalar_function(e) /\ FuncNameOf(fm, e) = "and"

\* every leaf below the 'and' calls of an expression is a scalar function call
RECURSIVE OnlyScalarLeaves(_, _)
OnlyScalarLeaves(fm, e) ==
    /\ has_scalar_function(e)
    /\ IsAndOf(fm, e) => \A i \in DOMAIN e.args : OnlyScalarLeaves(fm, e.args[i])

\* the number of leaves below the 'and' calls of an expression
RECURSIVE LeafCount(_, _)
RECURSIVE LeafCountFrom(_, _, _)
LeafCount(fm, e) ==
    IF IsAndOf(fm, e) THEN LeafCountFrom(fm, e.args, 1) ELSE 1
LeafCountFrom(fm, args, i) ==
    IF i > Len(args) THEN 0
    ELSE LeafCount(fm, args[i]) + LeafCountFrom(fm, args, i + 1)

\* the k-th leaf, left to right and depth first, below the 'and' calls
RECURSIVE LeafAt(_, _, _)
RECURSIVE LeafAtFrom(_, _, _, _)
LeafAt(fm, e, k) ==
    IF IsAndOf(fm, e) THEN LeafAtFrom(fm, e.args, 1, k) ELSE e
LeafAtFrom(fm, args, i, k) ==
    IF k <= LeafCount(fm, args[i]) THEN LeafAt(fm, args[i], k)
    ELSE LeafAtFrom(fm, args, i + 1, k - LeafCount(fm, args[i]))

\* the non-and scalar calls of an expression in left-to-right depth-first order
DepthFirstLeaves(fm, e) ==
    [k \in 1 .. LeafCount(fm, e) |-> LeafAt(fm, e, k)]

\* C14: for a filter whose leaves are scalar function calls, flattenConditions
\* yields the non-and calls in left-to-right depth-first order, none of them
\* an and call; for three leaves a, b, c it yields the same sequence a, b, c
\* for and(and(a,b),c), and(a,and(b,c)) and and(a,b,c).
C14_AndFlattening ==
    (ScanDone /\ OnlyScalarLeaves(functionMap_, ScanFilter))
    => /\ ScanFlat.ok
       /\ ScanFlat.fns = DepthFirstLeaves(functionMap_, ScanFilter)
       /\ \A i \in DOMAIN ScanFlat.fns : ~IsAndOf(functionMap_, ScanFlat.fns[i])
       /\ Len(ScanFlat.fns) = 3
          => \E a \in {ScanFlat.fns[1]}, b \in {ScanFlat.fns[2]},
                c \in {ScanFlat.fns[3]} :
                /\ flattenConditions(functionMap_, And(<<And(<<a, b>>), c>>)).fns
                      = <<a, b, c>>
                /\ flattenConditions(functionMap_, And(<<a, And(<<b, c>>)>>)).fns
                      = <<a, b, c>>
                /\ flattenConditions(functionMap_, And(<<a, b, c>>)).fns
                      = <<a, b, c>>

\* a scan whose filter and(and(a,b),c) of three different leaves was flattened
C14_Witness ==
    /\ ScanDone
    /\ OnlyScalarLeaves(functionMap_, ScanFilter)
    /\ FilterIsAnd
    /\ Len(ScanFilter.args) = 2
    /\ IsAndOf(functionMap_, ScanFilter.args[1])
    /\ Len(ScanFlat.fns) = 3
    /\ ScanFlat.fns[1] # ScanFlat.fns[2] /\ ScanFlat.fns[2] # ScanFlat.fns[3]
    /\ ScanFlat.fns[1] # ScanFlat.fns[3]
    /\ ScanFlat.fns = ScanFilter.args[1].args \o <<ScanFilter.args[2]>>


\* some flattened leaf of the filter of the scan is an is_null call
HasIsNullLeaf ==
    /\ ScanFlat.ok
    /\ \E i \in DOMAIN ScanFlat.fns :
          FuncNameOf(functionMap_, ScanFlat.fns[i]) = "is_null"

\* C15 (as claimed): a PARQUET scan whose filter conjunction contains an
\* is_null leaf emits an empty subfield filter map, and its remaining filter
\* is the AND of all leaves of the conjunction.
C15_ParquetIsNullVeto ==
    (ScanEmitted /\ ScanFormat = "PARQUET" /\ HasIsNullLeaf)
    => /\ DOMAIN Handle.subfieldFilters = {}
       /\ Conjuncts(Handle.remainingFilter) =
             [i \in DOMAIN ScanFlat.fns |->
                toVeloxExpr(functionMap_, ScanFlat.fns[i])]

----------------------------------------------------------------------------
(* The filters of one column.                                              *)

\* an expression refers to column c
RECURSIVE MentionsColumn(_, _)
MentionsColumn(e, c) ==
    IF has_selection(e) THEN e.col = c
    ELSE IF has_scalar_function(e)
    THEN \E i \in DOMAIN e.args : MentionsColumn(e.args[i], c)
    ELSE FALSE

\* the flattened leaves of the filter of the scan that refer to column c
LeavesOn(c) ==
    {i \in DOMAIN ScanFlat.fns : MentionsColumn(ScanFlat.fns[i], c)}

\* leaf i is the comparison name(c, literal), the field first
IsCmpLeaf(i, names, c) ==
    /\ FuncNameOf(functionMap_, ScanFlat.fns[i]) \in names
    /\ Len(ScanFlat.fns[i].args) = 2
    /\ ScanFlat.fns[i].args[1] = Sel(c)
    /\ has_literal(ScanFlat.fns[i].args[2])
    /\ ~ScanFlat.fns[i].args[2].isList

\* the only leaves on column c, of type INTEGER or BIGINT, are the lower
\* bound comparison lo and the upper bound comparison hi
SimpleRangeCase(c, lo, hi) ==
    /\ ScanEmitted
    /\ ScanTypes[c + 1] \in {"INTEGER", "BIGINT"}
    /\ LeavesOn(c) = {lo, hi}
    /\ lo # hi
    /\ IsCmpLeaf(lo, {sGte, sGt}, c)
    /\ IsCmpLeaf(hi, {sLte, sLt}, c)

\* the BigintRange of the comparisons lo and hi
SimpleRangeOf(lo, hi) ==
    [kind |-> "BigintRange",
     lower |-> ScanFlat.fns[lo].args[2].val, lowerUnbounded |-> FALSE,
     lowerExclusive |-> FuncNameOf(functionMap_, ScanFlat.fns[lo]) = sGt,
     upper |-> ScanFlat.fns[hi].args[2].val, upperUnbounded |-> FALSE,
     upperExclusive |-> FuncNameOf(functionMap_, ScanFlat.fns[hi]) = sLt,
     nullAllowed |-> TRUE]

\* C16 (as claimed, without the veto of the format): when the only leaves on an INTEGER or BIGINT column are
\* one gte/gt and one lte/lt comparison with a literal, the emitted map holds
\* for the column the one BigintRange of the two bounds, with the exclusive
\* flags of gt and lt and nullAllowed = true; without another leaf the
\* remaining filter is null.
C16_SimpleRangeAlways ==
    \A c \in 0 .. 1 :
       ScanDone /\ ScanFlat.ok
       => \A lo \in DOMAIN ScanFlat.fns, hi \in DOMAIN ScanFlat.fns :
             SimpleRangeCase(c, lo, hi)
             => /\ c \in DOMAIN Handle.subfieldFilters
                /\ Handle.subfieldFilters[c] = SimpleRangeOf(lo, hi)
                /\ Len(ScanFlat.fns) = 2 => Handle.remainingFilter = NullExpr


\* C16: when the only leaves on an INTEGER or BIGINT column are one gte/gt
\* and one lte/lt comparison with a literal, both top-level conjuncts, and
\* no filter built for another column is of a kind the format of the scan
\* does not support, the emitted map holds for the column the one BigintRange
\* of the two bounds, neither side unbounded, exclusive exactly for gt and
\* lt, nullAllowed = true, and without another leaf the remaining filter is
\* null; under the veto of the format the emitted map is empty and the two
\* comparisons are conjuncts of the remaining filter.
C16_SimpleRangeUnlessVeto ==
    \A c \in 0 .. 1 :
       ScanDone /\ ScanFlat.ok
       => \A lo \in DOMAIN ScanFlat.fns, hi \in DOMAIN ScanFlat.fns :
             SimpleRangeCase(c, lo, hi)
             => IF VetoCase
                THEN /\ DOMAIN Handle.subfieldFilters = {}
                     /\ \A i \in {lo, hi} :
                           Conjuncts(Handle.remainingFilter)[i] =
                              toVeloxExpr(functionMap_, ScanFlat.fns[i])
                ELSE /\ c \in DOMAIN Handle.subfieldFilters
                     /\ Handle.subfieldFilters[c] = SimpleRangeOf(lo, hi)
                     /\ Len(ScanFlat.fns) = 2
                        => Handle.remainingFilter = NullExpr

\* a scan of the filter and(gt(c0, lo), lt(c0, hi)) emitted its range
C16_Witness ==
    /\ ScanDone /\ ScanFlat.ok
    /\ Len(ScanFlat.fns) = 2
    /\ SimpleRangeCase(0, 1, 2)
    /\ ~VetoCase
    /\ Handle.subfieldFilters[0].lowerExclusive
    /\ Handle.subfieldFilters[0].upperExclusive
    /\ Handle.subfieldFilters[0].lower < Handle.subfieldFilters[0].upper
    /\ Handle.remainingFilter = NullExpr


\* the name of the i-th flattened leaf of the filter of the scan
LeafName(i) == FuncNameOf(functionMap_, ScanFlat.fns[i])

\* column c is the field argument of a top-level in leaf
IsInColumn(c) ==
    \E i \in DOMAIN ScanFlat.fns :
       /\ LeafName(i) = sIn
       /\ Len(ScanFlat.fns[i].args) = 2
       /\ ScanFlat.fns[i].args[1] = Sel(c)

\* an is_not_null leaf on column c is among the conjuncts
HasIsNotNullOn(c) ==
    \E i \in DOMAIN ScanFlat.fns :
       LeafName(i) = sIsNotNull /\ ScanFlat.fns[i].args = <<Sel(c)>>

\* C17: for a column that is the field argument of a top-level in leaf, the
\* pushdown candidates on the column are is_not_null and in leaves only,
\* every gte/gt/lte/lt/equal, not and or leaf on the column is among the
\* residuals, and the values primitive emitted for the column has
\* nullAllowed = false exactly when an is_not_null leaf on the column is
\* among the conjuncts.
C17_InColumnRule ==
    \A c \in 0 .. 1 :
       (ScanDone /\ ScanFlat.ok /\ ScanSep.ok /\ IsInColumn(c))
       => /\ \A i \in DOMAIN ScanSep.sub :
                MentionsColumn(ScanSep.sub[i], c)
                => FuncNameOf(functionMap_, ScanSep.sub[i]) \in {sIsNotNull, sIn}
          /\ \A i \in DOMAIN ScanFlat.fns :
                ( /\ MentionsColumn(ScanFlat.fns[i], c)
                  /\ LeafName(i) \in {sGte, sGt, sLte, sLt, sEqual, sNot, sOr} )
                => \E j \in DOMAIN ScanSep.rem : ScanSep.rem[j] = ScanFlat.fns[i]
          /\ ( /\ ScanEmitted
               /\ c \in DOMAIN Handle.subfieldFilters
               /\ Handle.subfieldFilters[c].kind \in ValuesKinds )
             => (Handle.subfieldFilters[c].nullAllowed <=> ~HasIsNotNullOn(c))

\* a scan of an in leaf, an is_not_null leaf and a comparison on one column
\* emitted the values primitive without nulls and kept the comparison
C17_Witness ==
    /\ ScanEmitted
    /\ ScanFlat.ok /\ ScanSep.ok
    /\ IsInColumn(0)
    /\ HasIsNotNullOn(0)
    /\ \E i \in DOMAIN ScanFlat.fns :
          /\ LeafName(i) \in {sGte, sLt}
          /\ MentionsColumn(ScanFlat.fns[i], 0)
    /\ 0 \in DOMAIN Handle.subfieldFilters
    /\ Handle.subfieldFilters[0].kind \in ValuesKinds
    /\ ~Handle.subfieldFilters[0].nullAllowed
    /\ Len(ScanSep.rem) = 1
    /\ Handle.remainingFilter # NullExpr


\* the pushdown candidates on column c: the leaves separateFilters took
\* for subfield filters that refer to the column
CandidatesOn(c) ==
    {i \in DOMAIN ScanSep.sub : MentionsColumn(ScanSep.sub[i], c)}

\* the only pushdown candidates on column c are is_not_null leaves
OnlyIsNotNullOn(c) ==
    /\ ScanDone /\ ScanFlat.ok /\ ScanSep.ok
    /\ CandidatesOn(c) # {}
    /\ \A i \in CandidatesOn(c) :
          /\ FuncNameOf(functionMap_, ScanSep.sub[i]) = sIsNotNull
          /\ ScanSep.sub[i].args = <<Sel(c)>>

\* C18 (as claimed, without the veto of the format): when the only pushdown
\* candidates on a column are is_not_null leaves, the emitted map holds for
\* the column a single IsNotNull primitive and no range.
C18_IsNotNullAlways ==
    \A c \in 0 .. 1 :
       (ScanEmitted /\ OnlyIsNotNullOn(c))
       => /\ c \in DOMAIN Handle.subfieldFilters
          /\ Handle.subfieldFilters[c] = MakeIsNotNull


\* C18: when the only pushdown candidates on a column are is_not_null
\* leaves, the filter built for the column is a single IsNotNull primitive
\* and no range; the scan emits it for the column unless its format is
\* PARQUET, which does not support IsNotNull: then the emitted map is empty
\* and the remaining filter is the AND of all leaves.
C18_IsNotNullUnlessParquet ==
    \A c \in 0 .. 1 :
       (ScanEmitted /\ OnlyIsNotNullOn(c))
       => /\ ScanProduced.ok
          /\ c \in DOMAIN ScanProduced.filters
          /\ ScanProduced.filters[c] = MakeIsNotNull
          /\ IF ScanFormat = "PARQUET"
             THEN /\ DOMAIN Handle.subfieldFilters = {}
                  /\ Conjuncts(Handle.remainingFilter) =
                        [i \in DOMAIN ScanFlat.fns |->
                           toVeloxExpr(functionMap_, ScanFlat.fns[i])]
             ELSE /\ c \in DOMAIN Handle.subfieldFilters
                  /\ Handle.subfieldFilters[c] = MakeIsNotNull

\* a scan whose format is not PARQUET emitted IsNotNull for a column with
\* two is_not_null leaves, and a range for the other column
C18_Witness ==
    /\ ScanEmitted
    /\ ScanFormat # "PARQUET"
    /\ OnlyIsNotNullOn(0)
    /\ Handle.subfieldFilters[0] = MakeIsNotNull
    /\ 1 \in DOMAIN Handle.subfieldFilters
    /\ Handle.subfieldFilters[1].kind \in RangeKinds


\* a pushdown candidate forbids the nulls of column c: an is_not_null leaf
\* on the column, or an or leaf with such a child
PushedIsNotNullOn(c) ==
    \E i \in DOMAIN ScanSep.sub :
       \/ /\ FuncNameOf(functionMap_, ScanSep.sub[i]) = sIsNotNull
          /\ ScanSep.sub[i].args = <<Sel(c)>>
       \/ /\ FuncNameOf(functionMap_, ScanSep.sub[i]) = sOr
          /\ \E k \in DOMAIN ScanSep.sub[i].args :
                /\ has_scalar_function(ScanSep.sub[i].args[k])
                /\ FuncNameOf(functionMap_, ScanSep.sub[i].args[k]) = sIsNotNull
                /\ ScanSep.sub[i].args[k].args = <<Sel(c)>>

\* the pushdown candidate i is not(equal(c, v))
IsPushedNotEqual(i, c, v) ==
    /\ FuncNameOf(functionMap_, ScanSep.sub[i]) = sNot
    /\ has_scalar_function(ScanSep.sub[i].args[1])
    /\ FuncNameOf(functionMap_, ScanSep.sub[i].args[1]) = sEqual
    /\ ScanSep.sub[i].args[1].args = <<Sel(c), Lit(v)>>

\* the filters of the columns were built from the pushdown candidates
FiltersBuilt == ScanDone /\ ScanFlat.ok /\ ScanSep.ok /\ ScanProduced.ok

----------------------------------------------------------------------------
(* Virtual tables.                                                         *)

\* toVeloxPlan(ReadRel) was called for a virtual table
VirtualDone == ReadRelDone /\ call.sRead.hasVirtualTable

\* every values entry of a virtual table has batchSize fields per column,
\* for one batchSize
ConsistentValues(sRead) ==
    \E batchSize \in 0 .. 4 :
       \A index \in DOMAIN sRead.virtualTable :
          Len(sRead.virtualTable[index]) = batchSize * Len(sRead.types)

\* C20: every row vector of the Values node of a converted virtual table
\* has as many children as the schema has columns, every child of the
\* length (field count of the values entry) / (column count), the same for
\* all entries; a virtual table with a values entry of another field count
\* is rejected with an error.
C20_ValuesConsistency ==
    VirtualDone
    => /\ ~ConsistentValues(call.sRead) => ~ret.ok
       /\ ret.ok
          => /\ ret.node.kind = "Values"
             /\ DOMAIN ret.node.vectors = DOMAIN call.sRead.virtualTable
             /\ \A index \in DOMAIN ret.node.vectors :
                   \E v \in {ret.node.vectors[index]},
                      batchSize \in {Len(call.sRead.virtualTable[1])
                                        \div Len(call.sRead.types)} :
                      /\ Len(call.sRead.virtualTable[index])
                            = batchSize * Len(call.sRead.types)
                      /\ Len(v.children) = Len(call.sRead.types)
                      /\ v.size = batchSize
                      /\ \A col \in DOMAIN v.children :
                            Len(v.children[col]) = batchSize

\* a virtual table of two values entries of two rows each was converted
C20_Witness ==
    /\ VirtualDone
    /\ ret.ok
    /\ Len(call.sRead.types) = 2
    /\ Len(ret.node.vectors) = 2
    /\ \A index \in 1 .. 2 :
          /\ Len(ret.node.vectors[index].children) = 2
          /\ Len(ret.node.vectors[index].children[1]) = 2

----------------------------------------------------------------------------
(* Pushed or leaves.                                                       *)

\* an expression is the comparison of column c with a literal, the field
\* first
IsComparisonOf(e, c) ==
    /\ has_scalar_function(e)
    /\ FuncNameOf(functionMap_, e) \in CmpNames
    /\ Len(e.args) = 2
    /\ e.args[1] = Sel(c)
    /\ has_literal(e.args[2]) /\ ~e.args[2].isList

\* the pushdown candidate i is an or of comparisons of column c with
\* literals, and no other leaf of the filter refers to the column
IsPushedOrOfComparisons(i, c) ==
    /\ FuncNameOf(functionMap_, ScanSep.sub[i]) = sOr
    /\ \A k \in DOMAIN ScanSep.sub[i].args :
          IsComparisonOf(ScanSep.sub[i].args[k], c)
    /\ \A j \in LeavesOn(c) : ScanFlat.fns[j] = ScanSep.sub[i]

\* C21 (as claimed): the filter emitted for the column of a pushed or of
\* comparisons accepts a value exactly when at least one of the child
\* comparisons holds for it.
C21_OrIsDisjunction ==
    \A c \in 0 .. 1 :
       (ScanEmitted /\ ScanFlat.ok /\ ScanSep.ok /\ c \in DOMAIN Handle.subfieldFilters)
       => \A i \in DOMAIN ScanSep.sub :
             IsPushedOrOfComparisons(i, c)
             => \A v \in ColumnValues :
                   TestFilter(Handle.subfieldFilters[c], v)
                     <=> \E k \in DOMAIN ScanSep.sub[i].args :
                            Compare(FuncNameOf(functionMap_, ScanSep.sub[i].args[k]),
                                    v, ScanSep.sub[i].args[k].args[2].val)

----------------------------------------------------------------------------
(* The ranges built from a FilterInfo.                                     *)

\* the FilterInfo the accumulator built for column c
InfoOf(c) == ScanAcc.map[c]

\* the range primitives of a built filter: its own, or those of a multi-range
RangesOf(f) == IF f.kind \in MultiRangeKinds THEN f.filters ELSE <<f>>

\* the column has bounds, and neither IN values nor a not-equal value
RangeCaseOf(c) ==
    /\ FiltersBuilt
    /\ InfoOf(c).valuesVector = <<>>
    /\ InfoOf(c).notValue = None
    /\ Max2(Len(InfoOf(c).lowerBounds), Len(InfoOf(c).upperBounds)) > 0

\* bounds[i] exists and holds a value
HoldsBound(bounds, i) == i \in DOMAIN bounds /\ bounds[i] # None

\* C22 (as claimed): with N = max(|lowerBounds|, |upperBounds|) the builder
\* produces N ranges; range i has the lower bound lowerBounds[i] when that
\* entry exists and holds a value and is lower-unbounded otherwise, and
\* likewise on the upper side: no bound of range i-1 is used again.
C22_RangeIndexing ==
    \A c \in 0 .. 1 :
       RangeCaseOf(c)
       => /\ c \in DOMAIN ScanProduced.filters
          /\ \E rs \in {RangesOf(ScanProduced.filters[c])} :
                /\ Len(rs) = Max2(Len(InfoOf(c).lowerBounds),
                                  Len(InfoOf(c).upperBounds))
                /\ \A i \in DOMAIN rs :
                      /\ IF HoldsBound(InfoOf(c).lowerBounds, i)
                         THEN /\ ~rs[i].lowerUnbounded
                              /\ rs[i].lower = InfoOf(c).lowerBounds[i][1]
                         ELSE rs[i].lowerUnbounded
                      /\ IF HoldsBound(InfoOf(c).upperBounds, i)
                         THEN /\ ~rs[i].upperUnbounded
                              /\ rs[i].upper = InfoOf(c).upperBounds[i][1]
                         ELSE rs[i].upperUnbounded


\* the accumulator built the FilterInfos of the columns
InfosBuilt == ScanDone /\ ScanFlat.ok /\ ScanSep.ok /\ ScanAcc.ok

\* C23 (as claimed): in every FilterInfo the accumulator builds from the
\* pushdown candidates, a present notValue implies empty lowerBounds and
\* upperBounds, which is what the builder checks after the not-equal filter.
C23_NotValueWithoutRanges ==
    InfosBuilt
    => \A c \in DOMAIN ScanAcc.map :
          InfoOf(c).notValue # None
          => /\ InfoOf(c).lowerBounds = <<>>
             /\ InfoOf(c).upperBounds = <<>>


\* the pushdown candidates that are in leaves on column c
PushedInsOn(c) ==
    {i \in DOMAIN ScanSep.sub :
        /\ FuncNameOf(functionMap_, ScanSep.sub[i]) = sIn
        /\ Len(ScanSep.sub[i].args) = 2
        /\ ScanSep.sub[i].args[1] = Sel(c)}

\* C24 (as claimed): for every column at most one in leaf is among the
\* pushdown candidates, so that valuesVector is written at most once.
C24_AtMostOneInPerColumn ==
    (ScanDone /\ ScanFlat.ok /\ ScanSep.ok)
    => \A c \in 0 .. 1 : Cardinality(PushedInsOn(c)) <= 1


\* the flattened leaf i is not(equal(c, literal))
IsNotEqualLeaf(i, c) ==
    /\ LeafName(i) = sNot
    /\ Len(ScanFlat.fns[i].args) = 1
    /\ IsComparisonOf(ScanFlat.fns[i].args[1], c)
    /\ FuncNameOf(functionMap_, ScanFlat.fns[i].args[1]) = sEqual

\* the top-level not(equal) leaves on column c, by their position
NotEqualLeavesOn(c) == {i \in DOMAIN ScanFlat.fns : IsNotEqualLeaf(i, c)}

\* an expression is not(equal(c, literal))
IsNotEqualOf(e, c) ==
    /\ FuncNameOf(functionMap_, e) = sNot
    /\ Len(e.args) = 1
    /\ IsComparisonOf(e.args[1], c)
    /\ FuncNameOf(functionMap_, e.args[1]) = sEqual

\* the positions of the not(equal) leaves on column c in a list of leaves
NotEqualsIn(fns, c) == {k \in DOMAIN fns : IsNotEqualOf(fns[k], c)}

\* the first of a non-empty set of positions
FirstOf(S) == CHOOSE i \in S : \A j \in S : i <= j

\* C25: of the top-level not(equal(col, v)) leaves on one column, at most
\* one is a pushdown candidate, and it is the first in conjunct order;
\* every later one is among the residuals, whatever leaves are between
\* them, so that notValue is set at most once for the column.
C25_OnlyFirstNotEqualIsPushed ==
    (ScanDone /\ ScanFlat.ok /\ ScanSep.ok)
    => \A c \in 0 .. 1 :
          /\ Cardinality(NotEqualsIn(ScanSep.sub, c)) <= 1
          /\ \A k \in NotEqualsIn(ScanSep.sub, c) :
                ScanSep.sub[k] = ScanFlat.fns[FirstOf(NotEqualLeavesOn(c))]
          /\ Cardinality(NotEqualsIn(ScanSep.rem, c))
                = Cardinality(NotEqualLeavesOn(c))
                    - Cardinality(NotEqualsIn(ScanSep.sub, c))
          /\ Cardinality(NotEqualLeavesOn(c)) >= 2
             => \E k \in NotEqualsIn(ScanSep.rem, c) :
                   ScanSep.rem[k] = ScanFlat.fns[CHOOSE i \in NotEqualLeavesOn(c) :
                                        \A j \in NotEqualLeavesOn(c) : j <= i]

\* a scan of not(equal(c0, 1)), a leaf on another column and
\* not(equal(c0, 2)) pushed the first and kept the second as a residual
C25_Witness ==
    /\ ScanEmitted /\ ScanFlat.ok /\ ScanSep.ok
    /\ Len(ScanFlat.fns) = 3
    /\ NotEqualLeavesOn(0) = {1, 3}
    /\ ScanFlat.fns[1] # ScanFlat.fns[3]
    /\ MentionsColumn(ScanFlat.fns[2], 1)
    /\ ScanSep.rem = <<ScanFlat.fns[3]>>
    /\ ScanSep.sub = <<ScanFlat.fns[1], ScanFlat.fns[2]>>

\* an expression is a scalar call whose arguments are one field, or one
\* field and one literal in either order
IsFieldOrFieldWithLiteral(e) ==
    /\ has_scalar_function(e)
    /\ \/ Len(e.args) = 1 /\ has_selection(e.args[1])
       \/ /\ Len(e.args) = 2
          /\ \E i \in 1 .. 2 : has_selection(e.args[i])
          /\ \E i \in 1 .. 2 : has_literal(e.args[i])

\* the single-leaf filter of the scan is an or of a comparison of the first
\* column and a comparison of the second column
CrossColumnOrCase ==
    /\ ScanDone /\ ScanFlat.ok /\ ScanSep.ok
    /\ Len(ScanFlat.fns) = 1
    /\ LeafName(1) = sOr
    /\ Len(ScanFlat.fns[1].args) = 2
    /\ IsComparisonOf(ScanFlat.fns[1].args[1], 0)
    /\ IsComparisonOf(ScanFlat.fns[1].args[2], 1)

\* C26: an or leaf among the pushdown candidates has only children that
\* are scalar calls named is_not_null, gte, gt, lte, lt, equal or in and
\* are field-or-field-with-literal, all its children refer to one column,
\* and that column is not the column of a top-level in; an or of
\* comparisons of two different columns gives no pushdown candidate, is the
\* only residual, and the emitted scan has no subfield filter and the or as
\* its remaining filter.
C26_OrCandidateConditions ==
    (ScanDone /\ ScanFlat.ok /\ ScanSep.ok)
    => /\ \A k \in DOMAIN ScanSep.sub :
             FuncNameOf(functionMap_, ScanSep.sub[k]) = sOr
             => /\ \A a \in DOMAIN ScanSep.sub[k].args :
                      /\ IsFieldOrFieldWithLiteral(ScanSep.sub[k].args[a])
                      /\ FuncNameOf(functionMap_, ScanSep.sub[k].args[a])
                            \in {sIsNotNull, sGte, sGt, sLte, sLt, sEqual, sIn}
                /\ \E c \in 0 .. 1 :
                      /\ ~IsInColumn(c)
                      /\ \A a \in DOMAIN ScanSep.sub[k].args :
                            /\ MentionsColumn(ScanSep.sub[k].args[a], c)
                            /\ ~MentionsColumn(ScanSep.sub[k].args[a], 1 - c)
       /\ CrossColumnOrCase
          => /\ ScanSep.sub = <<>>
             /\ ScanSep.rem = ScanFlat.fns
             /\ ScanEmitted
                => /\ DOMAIN Handle.subfieldFilters = {}
                   /\ Handle.remainingFilter
                        = toVeloxExpr(functionMap_, ScanFlat.fns[1])

\* a scan of or(equal(c0, 1), equal(c1, 1)) was emitted with no subfield
\* filter and the or as the remaining filter
C26_Witness ==
    /\ ScanEmitted
    /\ CrossColumnOrCase
    /\ FuncNameOf(functionMap_, ScanFlat.fns[1].args[1]) = sEqual
    /\ FuncNameOf(functionMap_, ScanFlat.fns[1].args[2]) = sEqual
    /\ ScanSep.rem = ScanFlat.fns
    /\ Handle.remainingFilter # NullExpr

\* the comparison that holds exactly when the given comparison does not
ComplementName(name) ==
    CASE name = sGte -> sLt
      [] name = sGt -> sLte
      [] name = sLte -> sGt
      [] name = sLt -> sGte

\* an expression is not(x) for a gte, gt, lte or lt of column c and a literal
IsNegatedRangeOf(e, c) ==
    /\ FuncNameOf(functionMap_, e) = sNot
    /\ Len(e.args) = 1
    /\ IsComparisonOf(e.args[1], c)
    /\ FuncNameOf(functionMap_, e.args[1]) \in {sGte, sGt, sLte, sLt}

\* the leaf with every not(gte), not(gt), not(lte), not(lt) replaced by the
\* complementary comparison of the same column and literal
ComplementOf(e) ==
    IF \E c \in 0 .. 1 : IsNegatedRangeOf(e, c)
    THEN Fn(ComplementName(FuncNameOf(functionMap_, e.args[1])), ScanTypes,
            e.args[1].args[1].col, e.args[1].args)
    ELSE e

\* C27: accumulating the pushdown candidates gives the same FilterInfo of
\* every column as accumulating them with each not(gte(c, v)) replaced by
\* lt(c, v), not(gt(c, v)) by lte(c, v), not(lte(c, v)) by gt(c, v) and
\* not(lt(c, v)) by gte(c, v); and in every accumulated FilterInfo the
\* bounds and the exclusivity flags have equal length, lower and upper.
C27_NegationIsComplement ==
    (ScanDone /\ ScanFlat.ok /\ ScanSep.ok)
    => /\ ScanAcc = colInfoMapOf(functionMap_, ScanTypes,
                       [k \in DOMAIN ScanSep.sub |-> ComplementOf(ScanSep.sub[k])])
       /\ \A c \in DOMAIN ScanAcc.map :
             /\ Len(InfoOf(c).lowerBounds) = Len(InfoOf(c).lowerExclusives)
             /\ Len(InfoOf(c).upperBounds) = Len(InfoOf(c).upperExclusives)

\* a scan accumulated a pushed not(gte(c0, v)) as one exclusive upper bound
C27_Witness ==
    /\ InfosBuilt
    /\ \E k \in DOMAIN ScanSep.sub :
          /\ IsNegatedRangeOf(ScanSep.sub[k], 0)
          /\ FuncNameOf(functionMap_, ScanSep.sub[k].args[1]) = sGte
    /\ InfoOf(0).upperBounds # <<>>
    /\ InfoOf(0).upperExclusives = <<TRUE>>
    /\ InfoOf(0).lowerBounds = <<>>

\* leaf i of the filter is not(is_not_null(col)) for a column of the scan
IsNotOfIsNotNullLeaf(i) ==
    /\ LeafName(i) = sNot
    /\ Len(ScanFlat.fns[i].args) = 1
    /\ \E c \in 0 .. 1 :
          ScanFlat.fns[i].args[1] = IsNotNullLeaf(ScanTypes, c)

\* C28 (as claimed): the conversion of a scan whose filter has a leaf
\* not(is_not_null(col)) fails.
C28_NotIsNotNullRaises ==
    (ScanDone /\ ScanFlat.ok
       /\ \E i \in DOMAIN ScanFlat.fns : IsNotOfIsNotNullLeaf(i))
    => ~ret.ok

\* the columns of the scan whose type no subfield filter is built for
UnsupportedColumns ==
    {c \in 0 .. Len(ScanTypes) - 1 : ScanTypes[c + 1] \notin FilterTypeKinds}

\* the schema of the scan with BIGINT in place of every such type
SupportedTypesOf(types) ==
    [k \in DOMAIN types |->
        IF types[k] \in FilterTypeKinds THEN types[k] ELSE "BIGINT"]

\* C29 (as claimed): a leaf that compares a column whose type is not
\* INTEGER, BIGINT, DOUBLE or VARCHAR is among the residuals and not among
\* the pushdown candidates; and when no pushdown candidate refers to such a
\* column, the subfield filters are built whenever they are built for the
\* schema with a supported type in place of the unsupported ones.
C29_UnsupportedTypeFallback ==
    (ScanDone /\ ScanFlat.ok /\ ScanSep.ok)
    => /\ \A i \in DOMAIN ScanFlat.fns :
             (\E c \in UnsupportedColumns : IsComparisonOf(ScanFlat.fns[i], c))
             => /\ \E j \in DOMAIN ScanSep.rem : ScanSep.rem[j] = ScanFlat.fns[i]
                /\ \A j \in DOMAIN ScanSep.sub : ScanSep.sub[j] # ScanFlat.fns[i]
       /\ ( /\ \A j \in DOMAIN ScanSep.sub, c \in UnsupportedColumns :
                  ~MentionsColumn(ScanSep.sub[j], c)
            /\ toSubfieldFilters(functionMap_, SupportedTypesOf(ScanTypes),
                                 ScanSep.sub).ok )
          => ScanProduced.ok /\ ret.ok

\* C30 (as claimed): when every column of the scan has type INTEGER, BIGINT,
\* DOUBLE or VARCHAR, the pushdown candidates separateFilters chose are
\* accumulated by toSubfieldFilters and built by mapToFilters without an
\* error, whatever the combination of candidates.
C30_NormalizerAndBuilderAgree ==
    (ScanDone /\ ScanFlat.ok /\ ScanSep.ok
       /\ \A k \in DOMAIN ScanTypes : ScanTypes[k] \in FilterTypeKinds)
    => ScanAcc.ok /\ ScanProduced.ok

=============================================================================
